---- MODULE Spec2Model ----
(***************************************************************************)
(* Verification model of the auction-trader core.                          *)
(*                                                                         *)
(* Part 1: the event-driven backtester (crates/backtest): FillModel,       *)
(* PositionTracker and BacktestSimulator.                                  *)
(*                                                                         *)
(* Number representation.  The code computes in f64; the model computes    *)
(* in exact fixed point:                                                   *)
(*   - a price is a whole number of ticks (tick_size = 0.1);               *)
(*   - a size is a whole number of units of 1e-10 contracts, so that the   *)
(*     tracker's "fully closed" threshold 1e-10 is Eps = 1 unit;           *)
(*   - an amount of money is a whole number of                            *)
(*     tick*unit / (BpsDen * SizeLcm), which makes every fee               *)
(*     (notional * bps / 10000) and every pro-rated portion                *)
(*     (x * size / original_size) an exact integer.                        *)
(* Option<T> is a sequence of length 0 (None) or 1 (Some).                 *)
(***************************************************************************)
EXTENDS Integers, Sequences, FiniteSets, TLC

(* ------------------------------ bounds --------------------------------- *)

\* the closed-trade list is capped: a call is made only while it can
\* append its (at most two) trades without exceeding this length
MaxTrades == 3

(* --------------------------- program constants ------------------------- *)

\* 1e-10, the residual size at or below which a position counts as closed
Eps == 1

\* 8 * 60 * 60 * 1000
funding_interval_ms == 28800000

\* offset of a bar's exit timestamp from its minute key
BarCloseOffset == 59999

\* denominator of a basis-point rate
BpsDen == 10000

\* FillModelConfig::default().taker_fee_bps
taker_fee_bps == 5

\* BacktestConfig::default().funding_rate_8h_bps
funding_rate_8h_bps == 1

\* stands for f64::MAX, above every price of the model
F64Max == 1000

(* ------------------------------- inputs -------------------------------- *)

None == <<>>
Some(x) == <<x>>
IsSome(o) == Len(o) > 0
Unwrap(o) == o[1]

\* the timestamps the inputs carry (minute keys, one funding interval apart)
Times == {0, funding_interval_ms}

\* sizes a signal may carry (units of 1e-10 contracts)
Sizes == {2, 4}

\* least common multiple of the sizes
SizeLcm == CHOOSE m \in 1..64 :
             /\ \A s \in Sizes : m % s = 0
             /\ \A k \in 1..(m - 1) : \E s \in Sizes : k % s # 0

\* tp1_pct as a fraction <<numerator, denominator>>
Tp1Pcts == {<<1, 2>>, <<1, 1>>}

Configs == [initial_capital : {1000},
            slippage_ticks_entry : {1},
            slippage_ticks_exit : {2},
            tp1_pct : Tp1Pcts,
            move_stop_to_breakeven : BOOLEAN]

\* the signals fed to the simulator.  With the quote below a long fills at
\* 7 and a short at 3: a stop of 3 (long) or 8 (short) lies on the
\* protective side of the entry, a stop of 8 (long) or 2 (short) beyond it
\* (a fill that gapped through the stop the signal was computed with).
Sig(a, stop, tp1, tp2, size) ==
  [action |-> a, stop_price |-> stop, tp1_price |-> tp1, tp2_price |-> tp2,
   size |-> size]

Signals == {Sig("EnterLong", Some(3), Some(9), Some(10), Some(4)),
            Sig("EnterLong", Some(8), Some(9), None, Some(4)),
            Sig("EnterLong", None, Some(9), Some(10), Some(2)),
            Sig("EnterShort", Some(8), Some(2), Some(1), Some(4)),
            Sig("EnterShort", Some(2), Some(1), None, Some(4)),
            Sig("EnterShort", None, Some(2), None, Some(2)),
            Sig("Exit", None, None, None, None),
            Sig("Hold", None, None, None, None)}

QuotePrices == {[bid_px |-> 5, ask_px |-> 6]}

BarRanges == {[low |-> 5, high |-> 6], [low |-> 2, high |-> 6],
              [low |-> 5, high |-> 9], [low |-> 1, high |-> 10],
              [low |-> 5, high |-> 10], [low |-> 1, high |-> 6],
              [low |-> 9, high |-> 9], [low |-> 1, high |-> 1]}

MarkPrices == {5}

(* ------------------------------- state --------------------------------- *)

\* config, position_tracker, equity, last_funding_ts: the fields of
\* BacktestSimulator; now: timestamp of the latest input delivered;
\* lastOp: the latest call and its arguments; opened_at: the length of the
\* closed-trade list when the current (or latest) position was opened
VARIABLES config, position_tracker, equity, last_funding_ts, now, lastOp, opened_at

simVars == <<config, position_tracker, equity, last_funding_ts, now, lastOp, opened_at>>

\* rolling_histogram: the fields of a RollingHistogram; hist_log: whether a
\* trade of at most 1e-10 was added and whether a snapshot was evicted
VARIABLES rolling_histogram, hist_log

histVars == <<rolling_histogram, hist_log>>

\* va_input: a histogram, a bin width and a ValueAreaConfig; va_result: the
\* ValueArea that compute returned for them
VARIABLES va_input, va_result

vaVars == <<va_input, va_result>>

\* classified_batch: the trades and the result of a classify_batch, until
\* the next call; classified: none after a classify_batch;
\* classifier: the fields of a TradeClassifier; classified: the
\* ClassifiedTrade that the latest classify call returned
VARIABLES classifier, classified, classified_batch

clfVars == <<classifier, classified, classified_batch>>

\* BarBuilder (ingestion/src/bar_builder.rs): the builder, the bars the latest
\* operation returned (none for one that returns nothing), and a history of
\* what was added and emitted.
VARIABLES bar_builder, completed, bar_log

barVars == <<bar_builder, completed, bar_log>>

\* MetricsCalculator::calculate (backtest/src/metrics.rs): its arguments and
\* the metrics of the first and of a repeated call.
VARIABLES metrics_input, metrics_result

metVars == <<metrics_input, metrics_result>>

\* Construction of the core components: the configuration at hand and, per
\* component, the outcome of its constructor once it has been called.
VARIABLES ctor_input, ctor_result

ctorVars == <<ctor_input, ctor_result>>

\* OrderFlowAggregator (features/src/order_flow.rs): the aggregator, the
\* metrics the latest get_minute returned, and the volume added so far per
\* minute and side.
VARIABLES order_flow, flow_metrics, flow_log

flowVars == <<order_flow, flow_metrics, flow_log>>

\* FeatureEngine (features/src/engine.rs): the engine, the result of the
\* latest compute_features, and the latest trade and bar delivered.
VARIABLES engine, features, eng_log

engVars == <<engine, features, eng_log>>

vars == <<simVars, histVars, vaVars, clfVars, barVars, metVars, ctorVars, flowVars, engVars>>

\* the components a specification does not exercise are not constructed
SimIdle ==
  /\ config = None
  /\ position_tracker = None
  /\ equity = None
  /\ last_funding_ts = None
  /\ now = None
  /\ lastOp = None
  /\ opened_at = None

HistIdle == rolling_histogram = None /\ hist_log = None

VaIdle == va_input = None /\ va_result = None

ClfIdle == classifier = None /\ classified = None /\ classified_batch = None

BarIdle == bar_builder = None /\ completed = None /\ bar_log = None

MetIdle == metrics_input = None /\ metrics_result = None

CtorIdle == ctor_input = None /\ ctor_result = None

FlowIdle == order_flow = None /\ flow_metrics = None /\ flow_log = None

EngIdle == engine = None /\ features = None /\ eng_log = None

(* ------------------------------ FillModel ------------------------------ *)

\* FillModel::calculate_fee(notional, false), in money units
calculate_fee(notional) == notional * taker_fee_bps * SizeLcm

\* a variant of market_buy that applies the exit slippage
market_buy_exit_slippage(cfg, ts_ms, quote, size) ==
  LET slippage == cfg.slippage_ticks_exit
      fill_price == quote.ask_px + slippage
  IN [ts_ms |-> ts_ms, price |-> fill_price, size |-> size, side |-> "Long",
      fee |-> (fill_price * size) * taker_fee_bps * SizeLcm,
      slippage |-> slippage]

\* FillModel::market_buy
market_buy(cfg, ts_ms, quote, size) ==
  LET slippage == cfg.slippage_ticks_entry
      fill_price == quote.ask_px + slippage
  IN [ts_ms |-> ts_ms, price |-> fill_price, size |-> size, side |-> "Long",
      fee |-> (fill_price * size) * taker_fee_bps * SizeLcm,
      slippage |-> slippage]

\* a variant of market_sell that applies the entry slippage
market_sell_entry_slippage(cfg, ts_ms, quote, size) ==
  LET slippage == cfg.slippage_ticks_entry
      fill_price == quote.bid_px - slippage
  IN [ts_ms |-> ts_ms, price |-> fill_price, size |-> size, side |-> "Short",
      fee |-> (fill_price * size) * taker_fee_bps * SizeLcm,
      slippage |-> slippage]

\* FillModel::market_sell
market_sell(cfg, ts_ms, quote, size) ==
  LET slippage == cfg.slippage_ticks_exit
      fill_price == quote.bid_px - slippage
  IN [ts_ms |-> ts_ms, price |-> fill_price, size |-> size, side |-> "Short",
      fee |-> (fill_price * size) * taker_fee_bps * SizeLcm,
      slippage |-> slippage]

(* ------------------------------ Position ------------------------------- *)

\* Position::is_stopped
is_stopped(pos, low, high) ==
  IF pos.side = "Long" THEN low <= pos.stop_price ELSE high >= pos.stop_price

\* Position::is_tp1_triggered
is_tp1_triggered(pos, low, high) ==
  IF pos.tp1_hit THEN FALSE
  ELSE IF ~IsSome(pos.tp1_price) THEN FALSE
  ELSE IF pos.side = "Long" THEN high >= Unwrap(pos.tp1_price)
  ELSE low <= Unwrap(pos.tp1_price)

\* Position::is_tp2_triggered
is_tp2_triggered(pos, low, high) ==
  IF ~IsSome(pos.tp2_price) THEN FALSE
  ELSE IF pos.side = "Long" THEN high >= Unwrap(pos.tp2_price)
  ELSE low <= Unwrap(pos.tp2_price)

(* --------------------------- PositionTracker --------------------------- *)

\* PositionTracker::new
NewTracker ==
  [position |-> None, trades |-> <<>>, total_pnl |-> 0, total_fees |-> 0,
   total_funding |-> 0, wins |-> 0, losses |-> 0]

\* a variant of has_position that never sees the open position
has_position_never(tr) == FALSE

\* PositionTracker::has_position, is_long, is_short
has_position(tr) == IsSome(tr.position)
is_long(tr) == IF IsSome(tr.position) THEN Unwrap(tr.position).side = "Long" ELSE FALSE
is_short(tr) == IF IsSome(tr.position) THEN Unwrap(tr.position).side = "Short" ELSE FALSE

\* PositionTracker::open_position
open_position(tr, fill, stop_price, tp1, tp2, strategy_tag) ==
  [tr EXCEPT !.position = Some(
     [entry_ts |-> fill.ts_ms, side |-> fill.side, entry_price |-> fill.price,
      size |-> fill.size, original_size |-> fill.size,
      stop_price |-> stop_price, tp1_price |-> tp1, tp2_price |-> tp2,
      tp1_hit |-> FALSE, strategy_tag |-> strategy_tag,
      fees_paid |-> fill.fee, funding_paid |-> 0])]

\* a variant of fully_closed that clears only a negative residual
fully_closed_negative(new_size) == new_size < 0

\* the "fully closed" test of close_position: position.size <= 1e-10
fully_closed(new_size) == new_size <= Eps

\* PositionTracker::close_position (full or partial); no position: no change
tracker_close_position(tr, ts_ms, exit_price, size, exit_fee, reason) ==
  IF ~IsSome(tr.position) THEN tr
  ELSE
    LET position == Unwrap(tr.position)
        price_diff == IF position.side = "Long"
                      THEN exit_price - position.entry_price
                      ELSE position.entry_price - exit_price
        fee_portion == (position.fees_paid * size) \div position.original_size
        funding_portion == (position.funding_paid * size) \div position.original_size
        pnl == price_diff * size * BpsDen * SizeLcm
               - fee_portion - funding_portion - exit_fee
        trade == [entry_ts |-> position.entry_ts, exit_ts |-> ts_ms,
                  side |-> position.side, entry_price |-> position.entry_price,
                  exit_price |-> exit_price, size |-> size, pnl |-> pnl,
                  fees |-> fee_portion + exit_fee, funding |-> funding_portion,
                  exit_reason |-> reason, strategy_tag |-> position.strategy_tag]
        new_size == position.size - size
    IN [tr EXCEPT
          !.total_pnl = @ + pnl,
          !.total_fees = @ + fee_portion + exit_fee,
          !.total_funding = @ + funding_portion,
          !.wins = IF pnl > 0 THEN @ + 1 ELSE @,
          !.losses = IF pnl > 0 THEN @ ELSE @ + 1,
          !.trades = Append(@, trade),
          !.position = IF fully_closed(new_size)
                       THEN None
                       ELSE Some([position EXCEPT !.size = new_size])]

\* PositionTracker::move_stop_to_breakeven
move_stop_to_breakeven(tr) ==
  IF ~IsSome(tr.position) THEN tr
  ELSE LET pos == Unwrap(tr.position)
       IN [tr EXCEPT !.position =
             Some([pos EXCEPT !.stop_price = pos.entry_price, !.tp1_hit = TRUE])]

\* PositionTracker::add_funding
add_funding(tr, funding) ==
  LET tr1 == IF ~IsSome(tr.position) THEN tr
             ELSE LET pos == Unwrap(tr.position)
                  IN [tr EXCEPT !.position =
                        Some([pos EXCEPT !.funding_paid = @ + funding])]
  IN [tr1 EXCEPT !.total_funding = @ + funding]

\* PositionTracker::equity
tracker_equity(tr, starting_capital) == starting_capital + tr.total_pnl

(* --------------------------- BacktestSimulator ------------------------- *)

\* BacktestSimulator::enter_long.  Every entry signal of the model carries
\* a size: the default of 0.1 contracts for an absent size is 1e9 size
\* units and lies outside the sizes the model computes with.
enter_long(cfg, tr, signal, quote) ==
  LET size == Unwrap(signal.size)
      fill == market_buy(cfg, quote.ts_ms, quote, size)
  IN open_position(tr, fill,
                   IF IsSome(signal.stop_price) THEN Unwrap(signal.stop_price) ELSE 0,
                   signal.tp1_price, signal.tp2_price, signal.strategy_tag)

\* BacktestSimulator::enter_short
enter_short(cfg, tr, signal, quote) ==
  LET size == Unwrap(signal.size)
      fill == market_sell(cfg, quote.ts_ms, quote, size)
  IN open_position(tr, fill,
                   IF IsSome(signal.stop_price) THEN Unwrap(signal.stop_price) ELSE F64Max,
                   signal.tp1_price, signal.tp2_price, signal.strategy_tag)

\* a variant of close_position that prices the exit with the entry slippage
sim_close_position_entry_slippage(cfg, tr, ts_ms, quote, reason) ==
  IF ~IsSome(tr.position) THEN tr
  ELSE LET pos == Unwrap(tr.position)
           size == pos.size
           exit_price == IF pos.side = "Long"
                         THEN quote.bid_px - cfg.slippage_ticks_entry
                         ELSE quote.ask_px + cfg.slippage_ticks_entry
           fee == calculate_fee(exit_price * size)
       IN tracker_close_position(tr, ts_ms, exit_price, size, fee, reason)

\* BacktestSimulator::close_position
sim_close_position(cfg, tr, ts_ms, quote, reason) ==
  IF ~IsSome(tr.position) THEN tr
  ELSE LET pos == Unwrap(tr.position)
           size == pos.size
           exit_price == IF pos.side = "Long"
                         THEN quote.bid_px - cfg.slippage_ticks_exit
                         ELSE quote.ask_px + cfg.slippage_ticks_exit
           fee == calculate_fee(exit_price * size)
       IN tracker_close_position(tr, ts_ms, exit_price, size, fee, reason)

\* a variant of process_signal whose flip closes the old position and
\* does not open the new one
process_signal_no_reentry(cfg, tr, signal, quote) ==
  CASE signal.action = "EnterLong" ->
         IF ~has_position(tr) THEN enter_long(cfg, tr, signal, quote)
         ELSE IF is_short(tr)
              THEN sim_close_position(cfg, tr, quote.ts_ms, quote, "SignalFlip")
              ELSE tr
    [] signal.action = "EnterShort" ->
         IF ~has_position(tr) THEN enter_short(cfg, tr, signal, quote)
         ELSE IF is_long(tr)
              THEN sim_close_position(cfg, tr, quote.ts_ms, quote, "SignalFlip")
              ELSE tr
    [] signal.action = "Exit" ->
         IF has_position(tr)
         THEN sim_close_position(cfg, tr, quote.ts_ms, quote, "Manual")
         ELSE tr
    [] signal.action = "Hold" -> tr

\* BacktestSimulator::process_signal, as a function of the tracker
process_signal(cfg, tr, signal, quote) ==
  CASE signal.action = "EnterLong" ->
         IF ~has_position(tr) THEN enter_long(cfg, tr, signal, quote)
         ELSE IF is_short(tr)
              THEN enter_long(cfg,
                     sim_close_position(cfg, tr, quote.ts_ms, quote, "SignalFlip"),
                     signal, quote)
              ELSE tr
    [] signal.action = "EnterShort" ->
         IF ~has_position(tr) THEN enter_short(cfg, tr, signal, quote)
         ELSE IF is_long(tr)
              THEN enter_short(cfg,
                     sim_close_position(cfg, tr, quote.ts_ms, quote, "SignalFlip"),
                     signal, quote)
              ELSE tr
    [] signal.action = "Exit" ->
         IF has_position(tr)
         THEN sim_close_position(cfg, tr, quote.ts_ms, quote, "Manual")
         ELSE tr
    [] signal.action = "Hold" -> tr

\* the calls of process_signal that open a position: an entry while flat
\* or while holding the opposite side
enters(tr, signal) ==
  \/ signal.action = "EnterLong" /\ ~is_long(tr)
  \/ signal.action = "EnterShort" /\ ~is_short(tr)

\* a variant of the TP1 block that never moves the stop
check_tp1_no_breakeven(cfg, tr, position, bar) ==
  IF ~position.tp1_hit /\ is_tp1_triggered(position, bar.low, bar.high)
  THEN LET tp1_price == Unwrap(position.tp1_price)
           partial_size == (position.size * cfg.tp1_pct[1]) \div cfg.tp1_pct[2]
           fee == calculate_fee(tp1_price * partial_size)
       IN tracker_close_position(tr, bar.ts_min + BarCloseOffset,
                                 tp1_price, partial_size, fee, "TakeProfit1")
  ELSE tr

\* the TP1 block of check_stops_targets (partial exit, breakeven promotion)
check_tp1(cfg, tr, position, bar) ==
  IF ~position.tp1_hit /\ is_tp1_triggered(position, bar.low, bar.high)
  THEN LET tp1_price == Unwrap(position.tp1_price)
           partial_size == (position.size * cfg.tp1_pct[1]) \div cfg.tp1_pct[2]
           fee == calculate_fee(tp1_price * partial_size)
           tr1 == tracker_close_position(tr, bar.ts_min + BarCloseOffset,
                                         tp1_price, partial_size, fee, "TakeProfit1")
       IN IF cfg.move_stop_to_breakeven THEN move_stop_to_breakeven(tr1) ELSE tr1
  ELSE tr

\* the TP2 block of check_stops_targets (full exit)
check_tp2(tr, bar) ==
  IF has_position(tr)
  THEN LET pos == Unwrap(tr.position)
       IN IF is_tp2_triggered(pos, bar.low, bar.high)
          THEN LET tp2_price == Unwrap(pos.tp2_price)
                   size == pos.size
                   fee == calculate_fee(tp2_price * size)
               IN tracker_close_position(tr, bar.ts_min + BarCloseOffset,
                                         tp2_price, size, fee, "TakeProfit2")
          ELSE tr
  ELSE tr

\* a variant of check_stops_targets that serves the targets before the stop
check_stops_targets_tp_first(cfg, tr, bar) ==
  IF ~IsSome(tr.position) THEN tr
  ELSE LET position == Unwrap(tr.position)
           tr1 == check_tp2(check_tp1(cfg, tr, position, bar), bar)
       IN IF has_position(tr1) /\ is_stopped(Unwrap(tr1.position), bar.low, bar.high)
          THEN LET pos == Unwrap(tr1.position)
               IN tracker_close_position(tr1, bar.ts_min + BarCloseOffset,
                                         pos.stop_price, pos.size,
                                         calculate_fee(pos.stop_price * pos.size),
                                         "StopLoss")
          ELSE tr1

\* BacktestSimulator::check_stops_targets, as a function of the tracker
check_stops_targets(cfg, tr, bar) ==
  IF ~IsSome(tr.position) THEN tr
  ELSE LET position == Unwrap(tr.position)
       IN IF is_stopped(position, bar.low, bar.high)
          THEN LET exit_price == position.stop_price
                   size == position.size
                   fee == calculate_fee(exit_price * size)
               IN tracker_close_position(tr, bar.ts_min + BarCloseOffset,
                                         exit_price, size, fee, "StopLoss")
          ELSE check_tp2(check_tp1(cfg, tr, position, bar), bar)

\* a variant of should_apply that ignores the interval
should_apply_always(last, ts_ms) == TRUE

\* the guard of process_funding
should_apply(last, ts_ms) ==
  IF IsSome(last) THEN ts_ms - Unwrap(last) >= funding_interval_ms ELSE TRUE

\* a variant of funding_cost that charges both sides alike
funding_cost_unsigned(pos, mark_price) ==
  (mark_price * pos.size) * funding_rate_8h_bps * SizeLcm

\* the signed amount process_funding accrues for a position
funding_cost(pos, mark_price) ==
  LET notional == mark_price * pos.size
      funding == notional * funding_rate_8h_bps * SizeLcm
  IN IF pos.side = "Long" THEN funding ELSE -funding

\* a variant of Equity that reads the simulator's own equity field
EquityField == equity

\* BacktestSimulator::equity()
Equity == tracker_equity(position_tracker, config.initial_capital)

(* ------------------------------ behaviour ------------------------------ *)

\* inputs are delivered in non-decreasing timestamp order
NextTimes == {t \in Times : t >= now}

\* a call appends at most two trades
CanCall == Len(position_tracker.trades) + 2 <= MaxTrades

\* BacktestSimulator::new
Init ==
  /\ config \in Configs
  /\ position_tracker = NewTracker
  /\ equity = config.initial_capital
  /\ last_funding_ts = None
  /\ now = 0
  /\ lastOp = [op |-> "new"]
  /\ opened_at = 0
  /\ HistIdle /\ VaIdle /\ ClfIdle /\ BarIdle /\ MetIdle /\ CtorIdle /\ FlowIdle /\ EngIdle

ProcessSignal ==
  /\ CanCall
  /\ \E sig \in Signals, qp \in QuotePrices, t \in NextTimes :
       LET signal == [ts_ms |-> t, action |-> sig.action,
                      stop_price |-> sig.stop_price, tp1_price |-> sig.tp1_price,
                      tp2_price |-> sig.tp2_price, size |-> sig.size,
                      strategy_tag |-> "test"]
           quote == [ts_ms |-> t, bid_px |-> qp.bid_px, ask_px |-> qp.ask_px]
       IN /\ position_tracker' = process_signal(config, position_tracker, signal, quote)
          /\ now' = t
          /\ lastOp' = [op |-> "process_signal", signal |-> sig, quote |-> qp]
          /\ opened_at' = IF enters(position_tracker, signal)
                          THEN Len(position_tracker'.trades)
                          ELSE opened_at
  /\ UNCHANGED <<config, equity, last_funding_ts>>
  /\ UNCHANGED <<histVars, vaVars, clfVars, barVars, metVars, ctorVars, flowVars, engVars>>

CheckStopsTargets ==
  /\ CanCall
  /\ \E br \in BarRanges, t \in NextTimes :
       LET bar == [ts_min |-> t, low |-> br.low, high |-> br.high]
       IN /\ position_tracker' = check_stops_targets(config, position_tracker, bar)
          /\ now' = t
          /\ lastOp' = [op |-> "check_stops_targets", low |-> br.low, high |-> br.high]
  /\ UNCHANGED <<config, equity, last_funding_ts, opened_at>>
  /\ UNCHANGED <<histVars, vaVars, clfVars, barVars, metVars, ctorVars, flowVars, engVars>>

ProcessFunding ==
  /\ CanCall
  /\ \E mark_price \in MarkPrices, ts_ms \in NextTimes :
       /\ IF should_apply(last_funding_ts, ts_ms) /\ has_position(position_tracker)
          THEN /\ position_tracker' =
                    add_funding(position_tracker,
                                funding_cost(Unwrap(position_tracker.position), mark_price))
               /\ last_funding_ts' = Some(ts_ms)
          ELSE UNCHANGED <<position_tracker, last_funding_ts>>
       /\ now' = ts_ms
       /\ lastOp' = [op |-> "process_funding", mark_price |-> mark_price,
                     applied |-> should_apply(last_funding_ts, ts_ms)
                                 /\ has_position(position_tracker)]
  /\ UNCHANGED <<config, equity, opened_at>>
  /\ UNCHANGED <<histVars, vaVars, clfVars, barVars, metVars, ctorVars, flowVars, engVars>>

\* BacktestSimulator::reset
Reset ==
  /\ position_tracker # NewTracker
  /\ position_tracker' = NewTracker
  /\ equity' = config.initial_capital
  /\ last_funding_ts' = None
  /\ lastOp' = [op |-> "reset"]
  /\ opened_at' = 0
  /\ UNCHANGED <<config, now>>
  /\ UNCHANGED <<histVars, vaVars, clfVars, barVars, metVars, ctorVars, flowVars, engVars>>

Next == ProcessSignal \/ CheckStopsTargets \/ ProcessFunding \/ Reset

Spec == Init /\ [][Next]_vars

(* ------------------------- properties: backtester ---------------------- *)

trades == position_tracker.trades
position == position_tracker.position
Pos == Unwrap(position_tracker.position)
LastTrade == position_tracker.trades[Len(position_tracker.trades)]

\* the trades recorded for the current (or latest) position
CurTrades == SubSeq(trades, opened_at + 1, Len(trades))

RECURSIVE SumPnl(_)
SumPnl(ts) == IF ts = <<>> THEN 0 ELSE ts[1].pnl + SumPnl(Tail(ts))

RECURSIVE SumSize(_)
SumSize(ts) == IF ts = <<>> THEN 0 ELSE ts[1].size + SumSize(Tail(ts))

CountReason(ts, reason) ==
  Cardinality({i \in DOMAIN ts : ts[i].exit_reason = reason})

\* the step is a check_stops_targets call on an open position whose stop
\* condition the bar satisfies
StopStep ==
  /\ lastOp'.op = "check_stops_targets"
  /\ IsSome(position)
  /\ \/ Pos.side = "Long" /\ lastOp'.low <= Pos.stop_price
     \/ Pos.side = "Short" /\ lastOp'.high >= Pos.stop_price

\* the step appended exactly the trades of the given number
Appended(n) ==
  /\ Len(trades') = Len(trades) + n
  /\ SubSeq(trades', 1, Len(trades)) = trades

\* C1: a check_stops_targets call on an open position whose stop condition
\* the bar satisfies appends exactly one trade, a StopLoss at stop_price
\* for the full remaining size with exit_ts = ts_min + 59999, and leaves
\* the simulator flat (so no TakeProfit trade is recorded for that bar).
C1_StopLossClosesAll ==
  [][StopStep =>
       /\ Appended(1)
       /\ LET t == trades'[Len(trades')]
          IN /\ t.exit_reason = "StopLoss"
             /\ t.exit_price = Pos.stop_price
             /\ t.size = Pos.size
             /\ t.exit_ts = now' + BarCloseOffset
             /\ t.side = Pos.side
       /\ position' = None]_vars

\* a long was stopped out by a bar whose high also reached its tp1 (9)
C1_Witness ==
  /\ lastOp.op = "check_stops_targets"
  /\ lastOp.high >= 9
  /\ trades # <<>>
  /\ LastTrade.exit_reason = "StopLoss"
  /\ LastTrade.side = "Long"
  /\ LastTrade.exit_ts = now + BarCloseOffset
  /\ position = None

\* the step is an entry signal for `side` while the opposite side is open
FlipStep(side) ==
  /\ lastOp'.op = "process_signal"
  /\ lastOp'.signal.action = (IF side = "Long" THEN "EnterLong" ELSE "EnterShort")
  /\ IsSome(position)
  /\ Pos.side # side

\* C2: an entry signal for the side opposite to the open position appends
\* exactly one trade, a SignalFlip for the full remaining size, and leaves
\* an open position on the new side built from the signal (tp1_hit false,
\* size = original_size = signal size, stop and targets of the signal).
C2_SignalFlip ==
  [][\A side \in {"Long", "Short"} :
       FlipStep(side) =>
         /\ Appended(1)
         /\ LET t == trades'[Len(trades')]
            IN /\ t.exit_reason = "SignalFlip"
               /\ t.size = Pos.size
               /\ t.side = Pos.side
         /\ IsSome(position')
         /\ LET new == Unwrap(position')
                sig == lastOp'.signal
            IN /\ new.side = side
               /\ new.tp1_hit = FALSE
               /\ new.size = Unwrap(sig.size)
               /\ new.original_size = Unwrap(sig.size)
               /\ new.tp1_price = sig.tp1_price
               /\ new.tp2_price = sig.tp2_price
               /\ IsSome(sig.stop_price) => new.stop_price = Unwrap(sig.stop_price)
               /\ new.entry_ts = now'
               /\ new.funding_paid = 0]_vars

\* a long was flipped into a short by the latest signal
C2_Witness ==
  /\ lastOp.op = "process_signal"
  /\ lastOp.signal.action = "EnterShort"
  /\ trades # <<>>
  /\ LastTrade.exit_reason = "SignalFlip"
  /\ LastTrade.side = "Long"
  /\ LastTrade.exit_ts = now
  /\ IsSome(position)
  /\ Pos.side = "Short"
  /\ Pos.entry_ts = now
  /\ opened_at = Len(trades)

\* C3 as stated: on a long-to-short flip the long is closed at
\* bid - slippage_ticks_exit * tick and the new short is entered at
\* ask + slippage_ticks_entry * tick.
C3_FlipPricesAsStated ==
  [][FlipStep("Short") =>
       /\ trades'[Len(trades')].exit_price
            = lastOp'.quote.bid_px - config.slippage_ticks_exit
       /\ Unwrap(position').entry_price
            = lastOp'.quote.ask_px + config.slippage_ticks_entry]_vars

\* C3 (amended): on a long-to-short flip the long is closed at
\* bid - slippage_ticks_exit * tick and the new short is entered at the
\* market-sell price, bid - slippage_ticks_exit * tick as well.
C3_FlipPrices ==
  [][FlipStep("Short") =>
       /\ trades'[Len(trades')].exit_price
            = lastOp'.quote.bid_px - config.slippage_ticks_exit
       /\ Unwrap(position').entry_price
            = lastOp'.quote.bid_px - config.slippage_ticks_exit]_vars

\* a long-to-short flip whose new short was entered below the ask
C3_Witness ==
  /\ lastOp.op = "process_signal"
  /\ lastOp.signal.action = "EnterShort"
  /\ trades # <<>>
  /\ LastTrade.exit_reason = "SignalFlip"
  /\ LastTrade.side = "Long"
  /\ LastTrade.exit_price < lastOp.quote.bid_px
  /\ IsSome(position)
  /\ Pos.side = "Short"
  /\ Pos.entry_price < lastOp.quote.ask_px
  /\ opened_at = Len(trades)

\* C4: at most one TakeProfit1 trade is recorded for a position.
C4_Tp1AtMostOnce == CountReason(CurTrades, "TakeProfit1") <= 1

\* C5: an open position has 0 < size <= original_size (a residual at or
\* below zero never stays open).
C5_PositionSize ==
  IsSome(position) => (0 < Pos.size /\ Pos.size <= Pos.original_size)

\* a position is open after a partial exit
C5_Witness ==
  /\ IsSome(position)
  /\ Pos.size < Pos.original_size
  /\ CurTrades # <<>>
  /\ LastTrade.exit_reason = "TakeProfit1"

\* the step keeps the same position open
SamePosition ==
  /\ IsSome(position)
  /\ IsSome(position')
  /\ opened_at' = opened_at
  /\ Pos.side = Unwrap(position').side

\* C6: while a position stays open the stop of a long never decreases and
\* the stop of a short never increases, and a stop that changes becomes the
\* entry price.
C6_StopNeverAdverse ==
  [][SamePosition =>
       LET new == Unwrap(position')
       IN /\ Pos.side = "Long" => new.stop_price >= Pos.stop_price
          /\ Pos.side = "Short" => new.stop_price <= Pos.stop_price
          /\ new.stop_price # Pos.stop_price
               => (new.stop_price = Pos.entry_price /\ new.tp1_hit)]_vars

\* C7: equity() = initial_capital + the sum of pnl over trades().
C7_Equity == Equity = config.initial_capital + SumPnl(trades)

\* two trades are recorded with a nonzero total, and an open position
\* carries funding that no trade has realized yet
C7_Witness ==
  /\ Len(trades) >= 2
  /\ SumPnl(trades) # 0
  /\ IsSome(position)
  /\ Pos.funding_paid # 0

\* the step closes the open position for good (it ends flat or with a new
\* position)
FullCloseStep ==
  /\ IsSome(position)
  /\ lastOp'.op # "reset"
  /\ (position' = None \/ opened_at' # opened_at)

\* C8: the sizes of the trades of a position never sum to more than its
\* original_size, and sum to exactly original_size once it is fully closed.
C8_ClosedSizeConservation ==
  [][/\ (IsSome(position) /\ lastOp'.op # "reset")
          => SumSize(SubSeq(trades', opened_at + 1, Len(trades'))) <= Pos.original_size
     /\ FullCloseStep
          => SumSize(SubSeq(trades', opened_at + 1, Len(trades'))) = Pos.original_size]_vars

\* C9: two consecutive accruals are at least one funding interval apart,
\* and a process_funding call made less than one interval after the last
\* accrual changes neither funding_paid nor total_funding nor
\* last_funding_ts.
C9_FundingOncePerInterval ==
  [][lastOp'.op = "process_funding" =>
       /\ (last_funding_ts' # last_funding_ts /\ IsSome(last_funding_ts))
            => Unwrap(last_funding_ts') - Unwrap(last_funding_ts) >= funding_interval_ms
       /\ (IsSome(last_funding_ts) /\ now' - Unwrap(last_funding_ts) < funding_interval_ms)
            => /\ last_funding_ts' = last_funding_ts
               /\ position_tracker'.total_funding = position_tracker.total_funding
               /\ position' = position]_vars

\* a process_funding call on an open position that accrued nothing because
\* the last accrual is less than one interval old
C9_Witness ==
  /\ lastOp.op = "process_funding"
  /\ ~lastOp.applied
  /\ IsSome(position)
  /\ Pos.funding_paid # 0
  /\ IsSome(last_funding_ts)
  /\ now - Unwrap(last_funding_ts) < funding_interval_ms

\* the step is a process_funding call that is due
FundingDue ==
  /\ lastOp'.op = "process_funding"
  /\ (IsSome(last_funding_ts) => now' - Unwrap(last_funding_ts) >= funding_interval_ms)

\* C10: a due process_funding call raises a long's funding_paid by
\* mark * size * funding_rate_8h_bps / 10000 and lowers a short's by the
\* same amount; with no position open the funding totals do not change.
C10_FundingAmount ==
  [][FundingDue =>
       LET amount == lastOp'.mark_price * Pos.size * funding_rate_8h_bps * SizeLcm
       IN /\ (IsSome(position) /\ Pos.side = "Long")
               => Unwrap(position').funding_paid = Pos.funding_paid + amount
          /\ (IsSome(position) /\ Pos.side = "Short")
               => Unwrap(position').funding_paid = Pos.funding_paid - amount
          /\ ~IsSome(position)
               => /\ position' = None
                  /\ position_tracker'.total_funding = position_tracker.total_funding]_vars

\* funding was just accrued on a short, which has received it
C10_Witness ==
  /\ lastOp.op = "process_funding"
  /\ lastOp.applied
  /\ IsSome(position)
  /\ Pos.side = "Short"
  /\ Pos.funding_paid < 0
  /\ last_funding_ts = Some(now)

\* the step is a process_signal call whose signal asks for nothing new: an
\* entry for the side already held, Hold, or Exit while flat
NoOpStep ==
  /\ lastOp'.op = "process_signal"
  /\ \/ lastOp'.signal.action = "EnterLong" /\ is_long(position_tracker)
     \/ lastOp'.signal.action = "EnterShort" /\ is_short(position_tracker)
     \/ lastOp'.signal.action = "Hold"
     \/ lastOp'.signal.action = "Exit" /\ position = None

\* C11: a no-op signal (EnterLong while long, EnterShort while short, Hold,
\* Exit while flat) leaves the position with all its fields, the closed
\* trades, the totals of the tracker, equity and last_funding_ts unchanged.
C11_NoOpSignals ==
  [][NoOpStep =>
       /\ position_tracker' = position_tracker
       /\ equity' = equity
       /\ Equity' = Equity
       /\ last_funding_ts' = last_funding_ts]_vars

\* an EnterLong signal was delivered to a long opened at an earlier time,
\* after a partial exit and a funding accrual
C11_Witness ==
  /\ lastOp.op = "process_signal"
  /\ lastOp.signal.action = "EnterLong"
  /\ IsSome(position)
  /\ Pos.side = "Long"
  /\ Pos.entry_ts < now
  /\ Pos.size < Pos.original_size
  /\ IsSome(last_funding_ts)

\* the step is an entry signal delivered while flat
EntryFromFlat ==
  /\ lastOp'.op = "process_signal"
  /\ lastOp'.signal.action \in {"EnterLong", "EnterShort"}
  /\ position = None

\* C12: an entry signal while flat opens a position on the signal's side
\* with size = original_size = the signal's size, the stop and targets of
\* the signal (stop 0 for a long and f64::MAX for a short when the signal has
\* none), tp1_hit false, fees_paid = the taker fee of the entry fill and
\* funding_paid = 0, and appends no trade; a long is filled at
\* ask + slippage_ticks_entry ticks, a short by a market sell at
\* bid - slippage_ticks_exit ticks.
C12_EntryFromFlat ==
  [][EntryFromFlat =>
       /\ IsSome(position')
       /\ trades' = trades
       /\ LET new == Unwrap(position')
              sig == lastOp'.signal
              long == sig.action = "EnterLong"
          IN /\ new.side = (IF long THEN "Long" ELSE "Short")
             /\ new.entry_price = (IF long
                                   THEN lastOp'.quote.ask_px + config.slippage_ticks_entry
                                   ELSE lastOp'.quote.bid_px - config.slippage_ticks_exit)
             /\ new.entry_ts = now'
             /\ new.size = Unwrap(sig.size)
             /\ new.original_size = Unwrap(sig.size)
             /\ new.stop_price = (IF IsSome(sig.stop_price) THEN Unwrap(sig.stop_price)
                                  ELSE IF long THEN 0 ELSE F64Max)
             /\ new.tp1_price = sig.tp1_price
             /\ new.tp2_price = sig.tp2_price
             /\ ~new.tp1_hit
             /\ new.fees_paid = calculate_fee(new.entry_price * new.size)
             /\ new.funding_paid = 0]_vars

\* a long was just opened from flat, after an earlier position was closed
C12_Witness ==
  /\ lastOp.op = "process_signal"
  /\ lastOp.signal.action = "EnterLong"
  /\ IsSome(position)
  /\ Pos.side = "Long"
  /\ Pos.entry_ts = now
  /\ Pos.fees_paid > 0
  /\ opened_at = Len(trades)
  /\ trades # <<>>
  /\ LastTrade.exit_reason # "SignalFlip"

\* the step is an Exit signal delivered while a position is open
ExitStep ==
  /\ lastOp'.op = "process_signal"
  /\ lastOp'.signal.action = "Exit"
  /\ IsSome(position)

\* C13: an Exit signal on an open position appends exactly one trade, a
\* Manual exit for the full remaining size, priced at bid - slippage_ticks_exit
\* ticks for a long and ask + slippage_ticks_exit ticks for a short, and
\* leaves the simulator flat.
C13_ManualExit ==
  [][ExitStep =>
       /\ Appended(1)
       /\ LET t == trades'[Len(trades')]
          IN /\ t.exit_reason = "Manual"
             /\ t.side = Pos.side
             /\ t.size = Pos.size
             /\ t.exit_ts = now'
             /\ t.exit_price = (IF Pos.side = "Long"
                                THEN lastOp'.quote.bid_px - config.slippage_ticks_exit
                                ELSE lastOp'.quote.ask_px + config.slippage_ticks_exit)
       /\ position' = None]_vars

\* an Exit signal closed the remainder that a TP1 partial exit had left
C13_Witness ==
  /\ lastOp.op = "process_signal"
  /\ lastOp.signal.action = "Exit"
  /\ position = None
  /\ Len(CurTrades) = 2
  /\ CurTrades[1].exit_reason = "TakeProfit1"
  /\ CurTrades[2].exit_reason = "Manual"
  /\ CurTrades[2].exit_ts = now
  /\ CurTrades[2].size = CurTrades[1].size

\* the step is a check_stops_targets call on an open position whose stop
\* the bar does not trigger, whose TP1 has not been hit and whose tp1_price
\* the bar reaches
Tp1Step ==
  /\ lastOp'.op = "check_stops_targets"
  /\ IsSome(position)
  /\ ~is_stopped(Pos, lastOp'.low, lastOp'.high)
  /\ ~Pos.tp1_hit
  /\ is_tp1_triggered(Pos, lastOp'.low, lastOp'.high)

\* the trade at index Len(trades) + 1 after the step is a TakeProfit1 exit
\* at tp1_price for size * tp1_pct
Tp1Trade ==
  /\ Len(trades') > Len(trades)
  /\ SubSeq(trades', 1, Len(trades)) = trades
  /\ LET t == trades'[Len(trades) + 1]
     IN /\ t.exit_reason = "TakeProfit1"
        /\ t.exit_price = Unwrap(Pos.tp1_price)
        /\ t.size * config.tp1_pct[2] = Pos.size * config.tp1_pct[1]
        /\ t.exit_ts = now' + BarCloseOffset

\* the position stays open with its size reduced by the TP1 trade, and
\* with the stop at entry and tp1_hit set when breakeven is configured
Tp1Remainder ==
  /\ IsSome(position')
  /\ LET new == Unwrap(position')
     IN /\ new.size = Pos.size - trades'[Len(trades) + 1].size
        /\ config.move_stop_to_breakeven
             => (new.stop_price = Pos.entry_price /\ new.tp1_hit)

\* C14 as stated: every TP1 step appends one TakeProfit1 trade and leaves
\* the position open with the reduced size.
C14_Tp1PartialAsStated ==
  [][Tp1Step => (Appended(1) /\ Tp1Trade /\ Tp1Remainder)]_vars

\* C14: a TP1 step records a TakeProfit1 trade at tp1_price for
\* size * tp1_pct; when the bar does not also reach tp2_price and the
\* remainder exceeds 1e-10 it is the only trade of the call and the
\* position stays open with size reduced by exactly that amount, with
\* stop_price = entry_price and tp1_hit = true when move_stop_to_breakeven
\* is configured; otherwise the call leaves the simulator flat.
C14_Tp1Partial ==
  [][Tp1Step =>
       /\ Tp1Trade
       /\ IF ~is_tp2_triggered(Pos, lastOp'.low, lastOp'.high)
             /\ Pos.size - trades'[Len(trades) + 1].size > Eps
          THEN Appended(1) /\ Tp1Remainder
          ELSE position' = None]_vars

\* a TP1 partial exit just halved a position and moved its stop to entry
C14_Witness ==
  /\ lastOp.op = "check_stops_targets"
  /\ trades # <<>>
  /\ LastTrade.exit_reason = "TakeProfit1"
  /\ LastTrade.exit_ts = now + BarCloseOffset
  /\ IsSome(position)
  /\ Pos.size + LastTrade.size = Pos.original_size
  /\ Pos.tp1_hit
  /\ Pos.stop_price = Pos.entry_price

\* the step is a check_stops_targets call on an open position that has had
\* no exit yet, with 0 < tp1_pct < 1, on a bar that does not trigger the
\* stop and reaches both tp1_price and tp2_price
BothTargetsStep ==
  /\ Tp1Step
  /\ Pos.size = Pos.original_size
  /\ config.tp1_pct[1] > 0
  /\ config.tp1_pct[1] < config.tp1_pct[2]
  /\ is_tp2_triggered(Pos, lastOp'.low, lastOp'.high)

\* the step is a check_stops_targets call whose TP1 exit takes the whole
\* position
Tp1ClosesAllStep ==
  /\ Tp1Step
  /\ config.tp1_pct[1] = config.tp1_pct[2]

\* C31: a check_stops_targets call on a bar that does not trigger the stop
\* and reaches both tp1_price and tp2_price, for a position on which TP1 has
\* not been hit and with 0 < tp1_pct < 1, appends exactly two trades,
\* TakeProfit1 (size * tp1_pct at tp1_price) and then TakeProfit2 (the whole
\* remainder at tp2_price), both with exit_ts = ts_min + 59999, and leaves
\* the simulator flat; when TP1 has already closed the position, no
\* TakeProfit2 trade follows.
C31_BothTargetsSameBar ==
  [][/\ BothTargetsStep =>
          /\ Appended(2)
          /\ Tp1Trade
          /\ LET t1 == trades'[Len(trades) + 1]
                 t2 == trades'[Len(trades) + 2]
             IN /\ t2.exit_reason = "TakeProfit2"
                /\ t2.exit_price = Unwrap(Pos.tp2_price)
                /\ t2.size = Pos.size - t1.size
                /\ t2.exit_ts = now' + BarCloseOffset
          /\ position' = None
     /\ Tp1ClosesAllStep => Appended(1) /\ position' = None]_vars

\* C39: total_funding is the funding accrued through add_funding: a
\* process_funding call that applies funding adds its cost, and a call that
\* closes a position (fully or partly) or opens one adds nothing, so that a
\* position with funding F closed in one exit has added exactly F.
C39_FundingCountedOnce ==
  [][/\ lastOp'.op \in {"process_signal", "check_stops_targets"} =>
          position_tracker'.total_funding = position_tracker.total_funding
     /\ lastOp'.op = "process_funding" =>
          position_tracker'.total_funding - position_tracker.total_funding
            = IF lastOp'.applied
              THEN funding_cost(Pos, lastOp'.mark_price)
              ELSE 0]_vars

(* ---------------------------- RollingHistogram ------------------------- *)

\* Volumes are counted in the size unit of the module (1e-10), prices in
\* ticks.  A BTreeMap<price, volume> is a function from the set of its
\* keys to their volumes.

\* an upper bound on the volume collected in the in-progress minute
MaxBucketVol == 4

\* the volume at or below which an aggregated bin is dropped on eviction
HistEps == 1

HistBaseBins == {2}
HistWindows == {1, 2}
HistMinutes == {0, 1}
HistPrices == {10, 11, 13}
HistSizes == {1, 2, 3}

\* BTreeMap::get(k).unwrap_or(0.0)
MapGet(m, k) == IF k \in DOMAIN m THEN m[k] ELSE 0

\* *m.entry(k).or_insert(0.0) += v
MapAdd(m, k, v) ==
  [x \in DOMAIN m \cup {k} |-> IF x = k THEN MapGet(m, k) + v ELSE m[x]]

\* m.values().sum()
RECURSIVE MapSum(_)
MapSum(m) ==
  IF DOMAIN m = {} THEN 0
  ELSE LET k == CHOOSE x \in DOMAIN m : TRUE
       IN m[k] + MapSum([x \in DOMAIN m \ {k} |-> m[x]])

\* RollingHistogram::new
NewHistogram(base_bin, window) ==
  [base_bin |-> base_bin, window |-> window, minute_volumes |-> <<>>,
   aggregated |-> <<>>, current_minute |-> None, current_bins |-> <<>>]

\* RollingHistogram::bin_key: floor(price / base_bin) * base_bin
bin_key(h, price) == (price \div h.base_bin) * h.base_bin

\* a variant of the eviction that leaves the aggregate as it is
evict_bins_keep(aggregated, old_bins) == aggregated

\* the eviction of one snapshot: each of its bins is subtracted from the
\* aggregate where the aggregate has the bin, and an aggregated bin left
\* at or below 1e-10 is removed
evict_bins(aggregated, old_bins) ==
  [k \in {x \in DOMAIN aggregated :
            x \notin DOMAIN old_bins \/ aggregated[x] - old_bins[x] > HistEps}
     |-> aggregated[k] - MapGet(old_bins, k)]

\* a variant of the eviction loop that pops nothing
evict_old_never(h) == h

\* the loop of finalize_minute that pops snapshots while more than
\* `window` of them are held
RECURSIVE evict_old(_)
evict_old(h) ==
  IF Len(h.minute_volumes) > h.window
  THEN evict_old([h EXCEPT
                    !.minute_volumes = Tail(@),
                    !.aggregated = evict_bins(@, Head(h.minute_volumes).bins)])
  ELSE h

\* RollingHistogram::finalize_minute
finalize_minute(h, ts_min) ==
  IF DOMAIN h.current_bins = {} THEN h
  ELSE evict_old([h EXCEPT
         !.aggregated = [k \in DOMAIN @ \cup DOMAIN h.current_bins
                           |-> MapGet(@, k) + MapGet(h.current_bins, k)],
         !.minute_volumes = Append(@, [ts_min |-> ts_min, bins |-> h.current_bins]),
         !.current_bins = <<>>])

\* RollingHistogram::add_trade
add_trade(h, ts_min, price, size) ==
  LET h1 == IF IsSome(h.current_minute) /\ ts_min # Unwrap(h.current_minute)
            THEN finalize_minute(h, Unwrap(h.current_minute))
            ELSE h
  IN [h1 EXCEPT !.current_minute = Some(ts_min),
                !.current_bins = MapAdd(@, bin_key(h, price), size)]

\* RollingHistogram::flush_current_minute
flush_current_minute(h) ==
  IF IsSome(h.current_minute)
  THEN finalize_minute([h EXCEPT !.current_minute = None], Unwrap(h.current_minute))
  ELSE h

\* RollingHistogram::histogram, total_volume, bin_count, minute_count
histogram(h) == h.aggregated
total_volume(h) == MapSum(h.aggregated)
bin_count(h) == Cardinality(DOMAIN h.aggregated)
minute_count(h) == Len(h.minute_volumes)

HistInit ==
  /\ rolling_histogram \in {NewHistogram(b, w) : b \in HistBaseBins, w \in HistWindows}
  /\ hist_log = [sub_eps |-> FALSE, evicted |-> FALSE]
  /\ SimIdle /\ VaIdle /\ ClfIdle /\ BarIdle /\ MetIdle /\ CtorIdle /\ FlowIdle /\ EngIdle

\* the volume of the in-progress minute if the trade is added to it
BucketAfter(ts_min, size) ==
  IF IsSome(rolling_histogram.current_minute)
     /\ ts_min = Unwrap(rolling_histogram.current_minute)
  THEN MapSum(rolling_histogram.current_bins) + size
  ELSE size

\* the call pops at least one snapshot
Evicts(h1) ==
  /\ h1.minute_volumes # rolling_histogram.minute_volumes
  /\ Len(rolling_histogram.minute_volumes) = rolling_histogram.window

AddTrade ==
  /\ \E ts_min \in HistMinutes, price \in HistPrices, size \in HistSizes :
       /\ BucketAfter(ts_min, size) <= MaxBucketVol
       /\ rolling_histogram' = add_trade(rolling_histogram, ts_min, price, size)
       /\ hist_log' = [sub_eps |-> hist_log.sub_eps \/ size <= HistEps,
                       evicted |-> hist_log.evicted \/ Evicts(rolling_histogram')]
  /\ UNCHANGED <<simVars, vaVars, clfVars, barVars, metVars, ctorVars, flowVars, engVars>>

FlushCurrentMinute ==
  /\ rolling_histogram' = flush_current_minute(rolling_histogram)
  /\ hist_log' = [hist_log EXCEPT !.evicted = @ \/ Evicts(rolling_histogram')]
  /\ UNCHANGED <<simVars, vaVars, clfVars, barVars, metVars, ctorVars, flowVars, engVars>>

HistNext == AddTrade \/ FlushCurrentMinute

HistSpec == HistInit /\ [][HistNext]_vars

(* ------------------------- properties: histogram ----------------------- *)

HistKeys == {bin_key(rolling_histogram, p) : p \in HistPrices}

\* the volume of a bin summed over the retained minute snapshots
RECURSIVE SnapshotVolume(_, _)
SnapshotVolume(snaps, k) ==
  IF snaps = <<>> THEN 0
  ELSE MapGet(Head(snaps).bins, k) + SnapshotVolume(Tail(snaps), k)

\* the volume of all bins summed over the retained minute snapshots
RECURSIVE SnapshotTotal(_)
SnapshotTotal(snaps) ==
  IF snaps = <<>> THEN 0
  ELSE MapSum(Head(snaps).bins) + SnapshotTotal(Tail(snaps))

\* the aggregate equals the retained snapshots, in total and bin by bin
Conserved ==
  /\ total_volume(rolling_histogram) = SnapshotTotal(rolling_histogram.minute_volumes)
  /\ \A k \in HistKeys \cup DOMAIN histogram(rolling_histogram) :
       MapGet(histogram(rolling_histogram), k)
         = SnapshotVolume(rolling_histogram.minute_volumes, k)

LastN(seq, n) ==
  IF Len(seq) > n THEN SubSeq(seq, Len(seq) - n + 1, Len(seq)) ELSE seq

\* the step finalizes the in-progress minute: a trade of another minute
\* arrives, or the minute is flushed, and the bucket holds volume
HistFinalised ==
  /\ IsSome(rolling_histogram.current_minute)
  /\ DOMAIN rolling_histogram.current_bins # {}
  /\ rolling_histogram'.current_minute # rolling_histogram.current_minute

\* the snapshot a finalizing step pushes
HistBatch ==
  [ts_min |-> Unwrap(rolling_histogram.current_minute),
   bins |-> rolling_histogram.current_bins]

\* after the step no more than `window` snapshots are held; a finalizing
\* step pushes the bucket and keeps the last `window` snapshots in push
\* order, any other step leaves snapshots and aggregate alone
WindowStep ==
  /\ Len(rolling_histogram'.minute_volumes) <= rolling_histogram.window
  /\ HistFinalised =>
       rolling_histogram'.minute_volumes
         = LastN(Append(rolling_histogram.minute_volumes, HistBatch),
                 rolling_histogram.window)
  /\ ~HistFinalised =>
       /\ rolling_histogram'.minute_volumes = rolling_histogram.minute_volumes
       /\ rolling_histogram'.aggregated = rolling_histogram.aggregated

MaxBins == 5

\* the largest volume of a bin
MaxVol == 3

VaBinWidths == {2}
VaFractions == {<<7, 10>>, <<1, 1>>}
VaMinBins == {0, 3}

\* the lower edges of the bins a histogram may hold
VaBinPrices(bin_width) == {100 + i * bin_width : i \in 0..(MaxBins - 1)}

\* the histograms of the model: any set of bins, each with a volume
VaHistograms(bin_width) ==
  UNION {[keys -> 0..MaxVol] : keys \in SUBSET VaBinPrices(bin_width)}

\* the histogram of test_value_area_basic and of the specification's worked
\* example: bins 98..102 of width 1 with volumes 50, 100, 200, 100, 50
VaExample == (196 :> 50) @@ (198 :> 100) @@ (200 :> 200) @@ (202 :> 100) @@ (204 :> 50)

VaInputs ==
  {[histogram |-> h, bin_width |-> w,
    config |-> [va_fraction |-> f, min_bins |-> n]] :
     h \in UNION {VaHistograms(bw) : bw \in VaBinWidths} \cup {VaExample},
     w \in VaBinWidths, f \in VaFractions, n \in VaMinBins}

\* ValueArea::invalid
ValueAreaInvalid ==
  [poc |-> 0, vah |-> 0, val |-> 0, coverage |-> <<0, 1>>, bin_count |-> 0,
   total_volume |-> 0, bin_width |-> 0, is_valid |-> FALSE]

\* histogram.iter().collect(): the (price, volume) pairs in ascending price
RECURSIVE SortedBins(_)
SortedBins(h) ==
  IF DOMAIN h = {} THEN <<>>
  ELSE LET p == CHOOSE x \in DOMAIN h : \A y \in DOMAIN h : x <= y
       IN <<<<p, h[p]>>>> \o SortedBins([x \in DOMAIN h \ {p} |-> h[x]])

\* a variant of the POC search that keeps the first maximal bin
max_by_volume_first(bins) ==
  LET i == CHOOSE x \in DOMAIN bins :
             /\ \A y \in DOMAIN bins : bins[y][2] <= bins[x][2]
             /\ \A y \in DOMAIN bins : bins[y][2] = bins[x][2] => x <= y
  IN bins[i]

\* histogram.iter().max_by(volume): Iterator::max_by returns the last of
\* several equally maximal elements
max_by_volume(bins) ==
  LET i == CHOOSE x \in DOMAIN bins :
             /\ \A y \in DOMAIN bins : bins[y][2] <= bins[x][2]
             /\ \A y \in DOMAIN bins : bins[y][2] = bins[x][2] => y <= x
  IN bins[i]

\* bins.iter().position(|p| (p - poc_bin).abs() < 1e-10).unwrap_or(0), as a
\* 1-based index; distinct bin prices differ by at least half a tick
position_of(bins, poc_bin) ==
  IF \E i \in DOMAIN bins : bins[i][1] = poc_bin
  THEN CHOOSE i \in DOMAIN bins :
         /\ bins[i][1] = poc_bin
         /\ \A j \in DOMAIN bins : bins[j][1] = poc_bin => i <= j
  ELSE 1

\* a variant of the loop condition that also expands at the target
below_target_or_at(cumulative_volume, total, va_fraction) ==
  cumulative_volume * va_fraction[2] <= total * va_fraction[1]

\* cumulative_volume < target_volume, with target = total * va_fraction
below_target(cumulative_volume, total, va_fraction) ==
  cumulative_volume * va_fraction[2] < total * va_fraction[1]

\* a variant of the expansion loop that goes up when both neighbours hold
\* the same volume
RECURSIVE expand_high_on_tie(_, _, _, _)
expand_high_on_tie(bins, total, va_fraction, st) ==
  IF ~below_target(st.cumulative_volume, total, va_fraction) THEN st
  ELSE LET next_low == IF st.low_idx > 1 THEN Some(st.low_idx - 1) ELSE None
           next_high == IF st.high_idx < Len(bins) THEN Some(st.high_idx + 1) ELSE None
       IN IF ~IsSome(next_low) /\ ~IsSome(next_high) THEN st
          ELSE LET expand_low ==
                     IF IsSome(next_low) /\ IsSome(next_high)
                     THEN bins[Unwrap(next_low)][2] > bins[Unwrap(next_high)][2]
                     ELSE IsSome(next_low)
               IN IF expand_low
                  THEN expand_high_on_tie(bins, total, va_fraction,
                         [st EXCEPT !.low_idx = Unwrap(next_low),
                                    !.cumulative_volume = @ + bins[Unwrap(next_low)][2],
                                    !.included_bins = @ + 1])
                  ELSE expand_high_on_tie(bins, total, va_fraction,
                         [st EXCEPT !.high_idx = Unwrap(next_high),
                                    !.cumulative_volume = @ + bins[Unwrap(next_high)][2],
                                    !.included_bins = @ + 1])

\* the expansion loop of compute, from the state (low_idx, high_idx,
\* cumulative_volume, included_bins)
RECURSIVE expand(_, _, _, _)
expand(bins, total, va_fraction, st) ==
  IF ~below_target(st.cumulative_volume, total, va_fraction) THEN st
  ELSE LET next_low == IF st.low_idx > 1 THEN Some(st.low_idx - 1) ELSE None
           next_high == IF st.high_idx < Len(bins) THEN Some(st.high_idx + 1) ELSE None
       IN IF ~IsSome(next_low) /\ ~IsSome(next_high) THEN st
          ELSE LET expand_low ==
                     IF IsSome(next_low) /\ IsSome(next_high)
                     THEN bins[Unwrap(next_low)][2] >= bins[Unwrap(next_high)][2]
                     ELSE IsSome(next_low)
               IN IF expand_low
                  THEN expand(bins, total, va_fraction,
                         [st EXCEPT !.low_idx = Unwrap(next_low),
                                    !.cumulative_volume = @ + bins[Unwrap(next_low)][2],
                                    !.included_bins = @ + 1])
                  ELSE expand(bins, total, va_fraction,
                         [st EXCEPT !.high_idx = Unwrap(next_high),
                                    !.cumulative_volume = @ + bins[Unwrap(next_high)][2],
                                    !.included_bins = @ + 1])

\* a variant of the upper edge that is the lower edge of the bin
upper_edge_low(price, bin_width) == price

\* vah: the upper edge of the highest included bin
upper_edge(price, bin_width) == price + bin_width

\* a variant of the validity test that ignores the number of bins
insufficient_volume_only(cfg, h) == MapSum(h) <= 0

\* the two early returns of compute: too few bins, or no volume
insufficient(cfg, h) ==
  \/ Cardinality(DOMAIN h) < cfg.min_bins
  \/ MapSum(h) <= 0

\* ValueAreaComputer::compute
va_compute(cfg, h, bin_width) ==
  IF insufficient(cfg, h) THEN ValueAreaInvalid
  ELSE
    LET total == MapSum(h)
        bins == SortedBins(h)
        poc_entry == IF bins = <<>> THEN <<0, 0>> ELSE max_by_volume(bins)
        poc_bin == poc_entry[1]
        poc_volume == poc_entry[2]
        poc_idx == position_of(bins, poc_bin)
        st == expand(bins, total, cfg.va_fraction,
                     [low_idx |-> poc_idx, high_idx |-> poc_idx,
                      cumulative_volume |-> poc_volume, included_bins |-> 1])
    IN [poc |-> poc_bin + bin_width \div 2,
        vah |-> upper_edge(bins[st.high_idx][1], bin_width),
        val |-> bins[st.low_idx][1],
        coverage |-> <<st.cumulative_volume, total>>,
        bin_count |-> st.included_bins,
        total_volume |-> total,
        bin_width |-> bin_width,
        is_valid |-> TRUE]

VaInit ==
  /\ va_input \in VaInputs
  /\ va_result = None
  /\ SimIdle /\ HistIdle /\ ClfIdle /\ BarIdle /\ MetIdle /\ CtorIdle /\ FlowIdle /\ EngIdle

VaCompute ==
  /\ va_result = None
  /\ va_result' = Some(va_compute(va_input.config, va_input.histogram,
                                  va_input.bin_width))
  /\ UNCHANGED <<va_input, simVars, histVars, clfVars, barVars, metVars, ctorVars, flowVars, engVars>>

VaNext == VaCompute

VaSpec == VaInit /\ [][VaNext]_vars

(* ------------------------- properties: value area ---------------------- *)

VaOut == Unwrap(va_result)
VaHist == va_input.histogram
VaBins == SortedBins(va_input.histogram)

\* the indices of the bins a valid result includes, read off val and vah
VaLow == CHOOSE i \in DOMAIN VaBins : VaBins[i][1] = VaOut.val
VaHigh == CHOOSE i \in DOMAIN VaBins : VaBins[i][1] + va_input.bin_width = VaOut.vah
VaPoc == CHOOSE i \in DOMAIN VaBins :
           VaBins[i][1] + va_input.bin_width \div 2 = VaOut.poc

\* the volume of the bins lo..hi
RECURSIVE RangeVolume(_, _, _)
RangeVolume(bins, lo, hi) ==
  IF lo > hi THEN 0 ELSE bins[lo][2] + RangeVolume(bins, lo + 1, hi)

\* a volume reaches the target share of the total
ReachesTarget(v) ==
  v * va_input.config.va_fraction[2] >= MapSum(VaHist) * va_input.config.va_fraction[1]

VaValid == va_result # None /\ VaOut.is_valid

\* C16: a valid result has val <= poc <= vah, bin_count >= 1 and
\* coverage >= va_fraction; coverage is 1 when the range holds every bin.
C16_ValueAreaOrdering ==
  VaValid =>
    /\ VaOut.val <= VaOut.poc
    /\ VaOut.poc <= VaOut.vah
    /\ VaOut.bin_count >= 1
    /\ ReachesTarget(VaOut.coverage[1])
    /\ VaOut.coverage[2] = MapSum(VaHist)
    /\ VaOut.bin_count = Len(VaBins) => VaOut.coverage[1] = VaOut.coverage[2]

\* the expansion ran out of bins on the lower side and went on upwards
C16_Witness ==
  /\ VaValid
  /\ VaOut.bin_count >= 3
  /\ VaOut.bin_count < Len(VaBins)
  /\ VaLow = 1
  /\ VaPoc = 2
  /\ VaOut.coverage[1] < VaOut.coverage[2]

\* the bins that hold the maximal volume
MaxBinsOf(bins) ==
  {i \in DOMAIN bins : \A j \in DOMAIN bins : bins[j][2] <= bins[i][2]}

\* C17 as stated: the POC is the lowest-priced bin of maximal volume.
C17_PocFirstMax ==
  VaValid =>
    /\ VaPoc \in MaxBinsOf(VaBins)
    /\ \A i \in MaxBinsOf(VaBins) : VaPoc <= i

\* C17: the POC is the highest-priced bin of maximal volume, poc is its
\* lower edge plus half a bin width, and the included range contains it.
C17_PocLastMax ==
  VaValid =>
    /\ VaPoc \in MaxBinsOf(VaBins)
    /\ \A i \in MaxBinsOf(VaBins) : i <= VaPoc
    /\ VaOut.poc = VaBins[VaPoc][1] + va_input.bin_width \div 2
    /\ VaLow <= VaPoc /\ VaPoc <= VaHigh

\* three bins share the maximal volume and the POC is the last of them
C17_Witness ==
  /\ VaValid
  /\ Cardinality(MaxBinsOf(VaBins)) = 3
  /\ VaPoc = Len(VaBins)
  /\ 1 \in MaxBinsOf(VaBins)
  /\ VaOut.bin_count < Len(VaBins)

\* the included bins are a contiguous range that contains the POC bin and
\* reaches the target
VaRange ==
  /\ 1 <= VaLow /\ VaLow <= VaPoc /\ VaPoc <= VaHigh /\ VaHigh <= Len(VaBins)
  /\ VaOut.bin_count = VaHigh - VaLow + 1
  /\ VaOut.coverage[1] = RangeVolume(VaBins, VaLow, VaHigh)
  /\ ReachesTarget(VaOut.coverage[1])

\* C18 as stated: no contiguous range containing the POC bin with fewer
\* bins reaches the target.
C18_MinimalAsStated ==
  VaValid =>
    /\ VaRange
    /\ \A lo \in 1..VaPoc, hi \in VaPoc..Len(VaBins) :
         hi - lo + 1 < VaOut.bin_count => ~ReachesTarget(RangeVolume(VaBins, lo, hi))

\* C18: the included bins are a contiguous range that contains the POC bin
\* and reaches the target, and the range stops growing as soon as it does:
\* without its lowest or without its highest bin (one that is not the POC
\* bin) it is below the target.
C18_StopsAtTarget ==
  VaValid =>
    /\ VaRange
    /\ VaOut.bin_count > 1 =>
         \/ VaLow # VaPoc /\ ~ReachesTarget(RangeVolume(VaBins, VaLow + 1, VaHigh))
         \/ VaHigh # VaPoc /\ ~ReachesTarget(RangeVolume(VaBins, VaLow, VaHigh - 1))

\* the greedy range holds every bin although a shorter range around the
\* POC reaches the target
C18_Witness ==
  /\ VaValid
  /\ VaOut.bin_count >= 4
  /\ \A i \in DOMAIN VaBins : VaBins[i][2] > 0
  /\ \E lo \in 1..VaPoc, hi \in VaPoc..Len(VaBins) :
       /\ hi - lo + 1 < VaOut.bin_count
       /\ ReachesTarget(RangeVolume(VaBins, lo, hi))

\* C19: the result is invalid exactly when the histogram has fewer than
\* min_bins bins or its total volume is <= 0, and an invalid result has
\* poc, vah, val, coverage, bin_count, total_volume and bin_width all zero.
C19_InvalidResult ==
  va_result # None =>
    /\ ~VaOut.is_valid <=> (\/ Cardinality(DOMAIN VaHist) < va_input.config.min_bins
                            \/ MapSum(VaHist) <= 0)
    /\ ~VaOut.is_valid =>
         /\ VaOut.poc = 0 /\ VaOut.vah = 0 /\ VaOut.val = 0
         /\ VaOut.coverage[1] = 0 /\ VaOut.bin_count = 0
         /\ VaOut.total_volume = 0 /\ VaOut.bin_width = 0

\* a histogram with enough bins and no volume gave the invalid result
C19_Witness ==
  /\ va_result # None
  /\ ~VaOut.is_valid
  /\ Cardinality(DOMAIN VaHist) >= 3
  /\ Cardinality(DOMAIN VaHist) >= va_input.config.min_bins
  /\ MapSum(VaHist) = 0
  /\ VaOut = ValueAreaInvalid

\* the range the stated rule grows from lo..hi: stop at the target; with two
\* neighbours take the strictly larger one and the lower one when they are
\* equal; with one neighbour take it
RECURSIVE GrownRange(_, _)
GrownRange(lo, hi) ==
  IF ReachesTarget(RangeVolume(VaBins, lo, hi)) THEN <<lo, hi>>
  ELSE IF lo > 1 /\ hi < Len(VaBins)
       THEN IF VaBins[hi + 1][2] > VaBins[lo - 1][2]
            THEN GrownRange(lo, hi + 1)
            ELSE GrownRange(lo - 1, hi)
       ELSE IF lo > 1 THEN GrownRange(lo - 1, hi)
       ELSE IF hi < Len(VaBins) THEN GrownRange(lo, hi + 1)
       ELSE <<lo, hi>>

\* C32: the range grows from the POC bin by the stated rule (of two
\* neighbours the one with strictly more volume, the lower one when they are
\* equal, the only one when there is one); with the POC at the lowest bin
\* val stays its lower edge, with the POC at the highest bin vah stays its
\* upper edge; bins 98..102 with volumes 50, 100, 200, 100, 50, width 1 and
\* fraction 0.70 give poc 100.5, val 99 and vah 102.
C32_ExpansionRule ==
  VaValid =>
    /\ <<VaLow, VaHigh>> = GrownRange(VaPoc, VaPoc)
    /\ VaPoc = 1 => VaOut.val = VaBins[1][1]
    /\ VaPoc = Len(VaBins) =>
         VaOut.vah = VaBins[Len(VaBins)][1] + va_input.bin_width
    /\ (VaHist = VaExample /\ va_input.config.va_fraction = <<7, 10>>) =>
         /\ VaOut.poc = 201
         /\ VaOut.val = 198
         /\ VaOut.vah = 204

\* the worked example: a tie between the two neighbours of the POC went to
\* the lower bin, and the next step to the larger upper bin
C32_Witness ==
  /\ VaValid
  /\ VaHist = VaExample
  /\ va_input.config.va_fraction = <<7, 10>>
  /\ va_input.config.min_bins = 3
  /\ VaOut.bin_count = 3
  /\ VaOut.coverage = <<400, 500>>

(* ----------------------------- TradeClassifier ------------------------- *)

\* Prices in ticks, sizes in whole contracts, timestamps in milliseconds.
\* A Quote is modelled by ts_ms, bid_px and ask_px; classify reads nothing
\* else of it.

\* the number of classify calls between two clear calls
MaxClassified == 3

\* the capacity of the quote buffer (max_quotes, 10000 in the source)
MaxQuotes == 2

\* the staleness reported when no quote is aligned (i64::MAX), scaled
I64Max == 1000000

\* the factor that caps the staleness added to total_staleness_ms
StalenessCap == 10

ClfMaxStaleness == {250}
ClfQuotes == {[ts_ms |-> t, bid_px |-> b.bid_px, ask_px |-> b.ask_px] :
                t \in {0, 300},
                b \in {[bid_px |-> 5, ask_px |-> 7], [bid_px |-> 6, ask_px |-> 6]}}
ClfTrades == [ts_ms : {100, 2600}, price : {5, 6, 7}, size : {1}]

\* the longest batch given to classify_batch
MaxBatch == 3

\* the trades of a batch: 2 at price 4 or 1 at price 7 at the earlier time,
\* 1 at price 7 at the later time
ClfBatchTrades ==
  {[ts_ms |-> x[1], price |-> x[2], size |-> x[3]] :
     x \in {<<100, 4, 2>>, <<100, 7, 1>>, <<2600, 7, 1>>}}

\* the positions at which a run of equal timestamps starts, and the
\* position at which the run that starts at s ends
RunStarts(batch) ==
  {i \in DOMAIN batch : i = 1 \/ batch[i].ts_ms # batch[i - 1].ts_ms}

RunEnd(batch, s) ==
  CHOOSE e \in s..Len(batch) :
    /\ \A j \in s..e : batch[j].ts_ms = batch[s].ts_ms
    /\ e = Len(batch) \/ batch[e + 1].ts_ms # batch[s].ts_ms

\* the total size and value of the trades lo..hi of a batch
RECURSIVE RunSize(_, _, _)
RunSize(batch, lo, hi) ==
  IF lo > hi THEN 0 ELSE batch[lo].size + RunSize(batch, lo + 1, hi)

RECURSIVE RunValue(_, _, _)
RunValue(batch, lo, hi) ==
  IF lo > hi THEN 0
  ELSE batch[lo].price * batch[lo].size + RunValue(batch, lo + 1, hi)

\* the batches of the model: those in which the size-weighted average
\* price of every run is a whole number of ticks
ClfBatches ==
  {b \in UNION {[1..k -> ClfBatchTrades] : k \in 0..MaxBatch} :
     \A s \in RunStarts(b) :
       RunValue(b, s, RunEnd(b, s)) % RunSize(b, s, RunEnd(b, s)) = 0}

\* ClassificationStats::default
NewStats ==
  [total_trades |-> 0, buy_trades |-> 0, sell_trades |-> 0, ambiguous_trades |-> 0,
   total_volume |-> 0, buy_volume |-> 0, sell_volume |-> 0, ambiguous_volume |-> 0,
   total_staleness_ms |-> 0, stale_quote_trades |-> 0]

\* TradeClassifier::new
NewClassifier(max_staleness_ms, use_tick_rule) ==
  [max_staleness_ms |-> max_staleness_ms, use_tick_rule |-> use_tick_rule,
   quotes |-> <<>>, max_quotes |-> MaxQuotes, last_trade_price |-> None,
   last_trade_side |-> "Ambiguous", stats |-> NewStats]

\* the loop of add_quote that makes room for the new quote
RECURSIVE pop_while_full(_, _)
pop_while_full(quotes, max_quotes) ==
  IF Len(quotes) >= max_quotes
  THEN pop_while_full(Tail(quotes), max_quotes)
  ELSE quotes

\* TradeClassifier::add_quote
add_quote(c, quote) ==
  [c EXCEPT !.quotes = Append(pop_while_full(@, c.max_quotes), quote)]

\* a variant of find_quote that takes the last quote in the buffer whatever
\* its timestamp
find_quote_latest(c, ts_ms) ==
  IF c.quotes = <<>> THEN None ELSE Some(c.quotes[Len(c.quotes)])

\* TradeClassifier::find_quote: the last quote in the buffer with
\* ts_ms <= the given timestamp
find_quote(c, ts_ms) ==
  LET hits == {i \in DOMAIN c.quotes : c.quotes[i].ts_ms <= ts_ms}
  IN IF hits = {} THEN None
     ELSE Some(c.quotes[CHOOSE i \in hits : \A j \in hits : j <= i])

\* a variant of the quote rule with strict comparisons
quote_side_strict(price, q) ==
  IF price > q.ask_px THEN "Buy"
  ELSE IF price < q.bid_px THEN "Sell"
  ELSE "Ambiguous"

\* the quote rule of classify
quote_side(price, q) ==
  IF price >= q.ask_px THEN "Buy"
  ELSE IF price <= q.bid_px THEN "Sell"
  ELSE "Ambiguous"

\* a variant of the tick rule without zero-tick continuation
tick_side_no_continuation(c, price) ==
  IF IsSome(c.last_trade_price)
  THEN IF price > Unwrap(c.last_trade_price) THEN "Buy"
       ELSE IF price < Unwrap(c.last_trade_price) THEN "Sell"
       ELSE "Ambiguous"
  ELSE "Ambiguous"

\* the tick rule of classify: the side by the previous trade's price
tick_side(c, price) ==
  IF IsSome(c.last_trade_price)
  THEN IF price > Unwrap(c.last_trade_price) THEN "Buy"
       ELSE IF price < Unwrap(c.last_trade_price) THEN "Sell"
       ELSE c.last_trade_side
  ELSE "Ambiguous"

Min(a, b) == IF a <= b THEN a ELSE b

\* a variant of classify that does not take the side from a stale quote
classify_stale_ambiguous(c, trade) ==
  LET quote == find_quote(c, trade.ts_ms)
      staleness_ms == IF IsSome(quote) THEN trade.ts_ms - Unwrap(quote).ts_ms
                      ELSE I64Max
      is_stale == IsSome(quote) /\ staleness_ms > c.max_staleness_ms
      by_quote == IF IsSome(quote) /\ ~is_stale
                  THEN quote_side(trade.price, Unwrap(quote))
                  ELSE "Ambiguous"
      side == IF by_quote = "Ambiguous" /\ c.use_tick_rule
              THEN tick_side(c, trade.price)
              ELSE by_quote
      stats == [c.stats EXCEPT
                  !.stale_quote_trades = IF is_stale THEN @ + 1 ELSE @,
                  !.total_trades = @ + 1,
                  !.total_volume = @ + trade.size,
                  !.total_staleness_ms =
                     @ + Min(staleness_ms, c.max_staleness_ms * StalenessCap),
                  !.buy_trades = IF side = "Buy" THEN @ + 1 ELSE @,
                  !.buy_volume = IF side = "Buy" THEN @ + trade.size ELSE @,
                  !.sell_trades = IF side = "Sell" THEN @ + 1 ELSE @,
                  !.sell_volume = IF side = "Sell" THEN @ + trade.size ELSE @,
                  !.ambiguous_trades = IF side = "Ambiguous" THEN @ + 1 ELSE @,
                  !.ambiguous_volume = IF side = "Ambiguous" THEN @ + trade.size ELSE @]
  IN [clf |-> [c EXCEPT !.stats = stats,
                        !.last_trade_price = Some(trade.price),
                        !.last_trade_side = IF side # "Ambiguous" THEN side ELSE @],
      out |-> [trade |-> trade, side |-> side,
               quote_bid_px |-> IF IsSome(quote) THEN Unwrap(quote).bid_px ELSE 0,
               quote_ask_px |-> IF IsSome(quote) THEN Unwrap(quote).ask_px ELSE 0,
               quote_staleness_ms |-> staleness_ms]]

\* a variant of classify that moves the price reference only with a side
classify_price_on_side(c, trade) ==
  LET quote == find_quote(c, trade.ts_ms)
      staleness_ms == IF IsSome(quote) THEN trade.ts_ms - Unwrap(quote).ts_ms
                      ELSE I64Max
      is_stale == IsSome(quote) /\ staleness_ms > c.max_staleness_ms
      by_quote == IF IsSome(quote) THEN quote_side(trade.price, Unwrap(quote))
                  ELSE "Ambiguous"
      side == IF by_quote = "Ambiguous" /\ c.use_tick_rule
              THEN tick_side(c, trade.price)
              ELSE by_quote
      stats == [c.stats EXCEPT
                  !.stale_quote_trades = IF is_stale THEN @ + 1 ELSE @,
                  !.total_trades = @ + 1,
                  !.total_volume = @ + trade.size,
                  !.total_staleness_ms =
                     @ + Min(staleness_ms, c.max_staleness_ms * StalenessCap),
                  !.buy_trades = IF side = "Buy" THEN @ + 1 ELSE @,
                  !.buy_volume = IF side = "Buy" THEN @ + trade.size ELSE @,
                  !.sell_trades = IF side = "Sell" THEN @ + 1 ELSE @,
                  !.sell_volume = IF side = "Sell" THEN @ + trade.size ELSE @,
                  !.ambiguous_trades = IF side = "Ambiguous" THEN @ + 1 ELSE @,
                  !.ambiguous_volume = IF side = "Ambiguous" THEN @ + trade.size ELSE @]
  IN [clf |-> [c EXCEPT !.stats = stats,
                        !.last_trade_price = IF side # "Ambiguous" THEN Some(trade.price) ELSE @,
                        !.last_trade_side = IF side # "Ambiguous" THEN side ELSE @],
      out |-> [trade |-> trade, side |-> side,
               quote_bid_px |-> IF IsSome(quote) THEN Unwrap(quote).bid_px ELSE 0,
               quote_ask_px |-> IF IsSome(quote) THEN Unwrap(quote).ask_px ELSE 0,
               quote_staleness_ms |-> staleness_ms]]

\* TradeClassifier::classify: the classifier after the call (clf) and the
\* ClassifiedTrade it returns (out)
classify(c, trade) ==
  LET quote == find_quote(c, trade.ts_ms)
      staleness_ms == IF IsSome(quote) THEN trade.ts_ms - Unwrap(quote).ts_ms
                      ELSE I64Max
      is_stale == IsSome(quote) /\ staleness_ms > c.max_staleness_ms
      by_quote == IF IsSome(quote) THEN quote_side(trade.price, Unwrap(quote))
                  ELSE "Ambiguous"
      side == IF by_quote = "Ambiguous" /\ c.use_tick_rule
              THEN tick_side(c, trade.price)
              ELSE by_quote
      stats == [c.stats EXCEPT
                  !.stale_quote_trades = IF is_stale THEN @ + 1 ELSE @,
                  !.total_trades = @ + 1,
                  !.total_volume = @ + trade.size,
                  !.total_staleness_ms =
                     @ + Min(staleness_ms, c.max_staleness_ms * StalenessCap),
                  !.buy_trades = IF side = "Buy" THEN @ + 1 ELSE @,
                  !.buy_volume = IF side = "Buy" THEN @ + trade.size ELSE @,
                  !.sell_trades = IF side = "Sell" THEN @ + 1 ELSE @,
                  !.sell_volume = IF side = "Sell" THEN @ + trade.size ELSE @,
                  !.ambiguous_trades = IF side = "Ambiguous" THEN @ + 1 ELSE @,
                  !.ambiguous_volume = IF side = "Ambiguous" THEN @ + trade.size ELSE @]
  IN [clf |-> [c EXCEPT !.stats = stats,
                        !.last_trade_price = Some(trade.price),
                        !.last_trade_side = IF side # "Ambiguous" THEN side ELSE @],
      out |-> [trade |-> trade, side |-> side,
               quote_bid_px |-> IF IsSome(quote) THEN Unwrap(quote).bid_px ELSE 0,
               quote_ask_px |-> IF IsSome(quote) THEN Unwrap(quote).ask_px ELSE 0,
               quote_staleness_ms |-> staleness_ms]]

\* the size and the value (price * size) of a group of trades
RECURSIVE group_size(_)
group_size(group) ==
  IF group = <<>> THEN 0 ELSE Head(group).size + group_size(Tail(group))

RECURSIVE group_value(_)
group_value(group) ==
  IF group = <<>> THEN 0
  ELSE Head(group).price * Head(group).size + group_value(Tail(group))

\* a variant of the group price that is the price of the first trade
group_vwap_first(group) == group[1].price

\* the price of the aggregated print of process_trade_group: total value /
\* total size (the batches of the model make the quotient whole), or the
\* first price for a group without size
group_vwap(group) ==
  IF group_size(group) > 0
  THEN group_value(group) \div group_size(group)
  ELSE group[1].price

\* TradeClassifier::process_trade_group: the classifier and the result list
\* after the group is classified
process_trade_group(c, group, result) ==
  LET print == IF Len(group) = 1 THEN group[1]
               ELSE [ts_ms |-> group[1].ts_ms, price |-> group_vwap(group),
                     size |-> group_size(group)]
      r == classify(c, print)
  IN [clf |-> r.clf, result |-> Append(result, r.out)]

\* the loop of classify_batch over the trades from index i on, with the
\* current timestamp and group and the result so far
RECURSIVE batch_loop(_, _, _, _, _, _)
batch_loop(c, batch, i, current_ts, current_group, result) ==
  IF i > Len(batch)
  THEN IF current_group # <<>>
       THEN process_trade_group(c, current_group, result)
       ELSE [clf |-> c, result |-> result]
  ELSE IF current_ts = Some(batch[i].ts_ms)
       THEN batch_loop(c, batch, i + 1, current_ts,
                       Append(current_group, batch[i]), result)
       ELSE LET r == IF current_group # <<>>
                     THEN process_trade_group(c, current_group, result)
                     ELSE [clf |-> c, result |-> result]
            IN batch_loop(r.clf, batch, i + 1, Some(batch[i].ts_ms),
                          <<batch[i]>>, r.result)

\* TradeClassifier::classify_batch
classify_batch(c, batch) ==
  IF batch = <<>> THEN [clf |-> c, result |-> <<>>]
  ELSE batch_loop(c, batch, 1, None, <<>>, <<>>)

\* TradeClassifier::clear
clear_classifier(c) ==
  [c EXCEPT !.quotes = <<>>, !.last_trade_price = None,
            !.last_trade_side = "Ambiguous", !.stats = NewStats]

ClfInit ==
  /\ classifier \in {NewClassifier(m, u) : m \in ClfMaxStaleness, u \in BOOLEAN}
  /\ classified = None
  /\ classified_batch = None
  /\ SimIdle /\ HistIdle /\ VaIdle /\ BarIdle /\ MetIdle /\ CtorIdle /\ FlowIdle /\ EngIdle

AddQuote ==
  /\ \E quote \in ClfQuotes : classifier' = add_quote(classifier, quote)
  /\ classified_batch' = None
  /\ UNCHANGED <<classified, simVars, histVars, vaVars, barVars, metVars, ctorVars, flowVars, engVars>>

Classify ==
  /\ classifier.stats.total_trades < MaxClassified
  /\ \E trade \in ClfTrades :
       /\ classifier' = classify(classifier, trade).clf
       /\ classified' = Some(classify(classifier, trade).out)
  /\ classified_batch' = None
  /\ UNCHANGED <<simVars, histVars, vaVars, barVars, metVars, ctorVars, flowVars, engVars>>

ClearClassifier ==
  /\ classifier # clear_classifier(classifier)
  /\ classifier' = clear_classifier(classifier)
  /\ classified_batch' = None
  /\ UNCHANGED <<classified, simVars, histVars, vaVars, barVars, metVars, ctorVars, flowVars, engVars>>

ClassifyBatch ==
  /\ classifier.stats.total_trades = 0
  /\ \E batch \in ClfBatches :
       /\ LET r == classify_batch(classifier, batch)
          IN /\ classifier' = r.clf
             /\ classified_batch' = Some([trades |-> batch, result |-> r.result])
             /\ classified' = None
  /\ UNCHANGED <<simVars, histVars, vaVars, barVars, metVars, ctorVars, flowVars, engVars>>

ClfNext == AddQuote \/ Classify \/ ClearClassifier

ClfSpec == ClfInit /\ [][ClfNext]_vars

\* The classifier fed with quotes and batches; a batch of one trade is a
\* classify call.  A batch is the first thing classified after new or clear.
BatchNext == AddQuote \/ ClassifyBatch \/ ClearClassifier

BatchSpec == ClfInit /\ [][BatchNext]_vars

(* ------------------------- properties: classifier ---------------------- *)

\* the step is a classify call
ClassifyStep ==
  /\ classifier'.stats.total_trades = classifier.stats.total_trades + 1
  /\ classified_batch' = None

\* the positions in the quote buffer of the quotes at or before a timestamp
QuotesAtOrBefore(ts_ms) ==
  {i \in DOMAIN classifier.quotes : classifier.quotes[i].ts_ms <= ts_ms}

\* C20: with the tick rule disabled, a trade for which the classifier holds
\* a quote with ts_ms <= trade.ts_ms is classified Buy when its price is
\* >= the ask, otherwise Sell when its price is <= the bid, otherwise
\* Ambiguous, and the bid and ask of the aligned quote (the latest such
\* quote in the buffer) are returned in quote_bid_px and quote_ask_px.
C20_QuoteSideRule ==
  [][(ClassifyStep /\ ~classifier.use_tick_rule) =>
       LET out == Unwrap(classified')
           hits == QuotesAtOrBefore(out.trade.ts_ms)
       IN hits # {} =>
            LET q == classifier.quotes[CHOOSE i \in hits : \A j \in hits : j <= i]
            IN /\ out.trade.price >= q.ask_px => out.side = "Buy"
               /\ (out.trade.price < q.ask_px /\ out.trade.price <= q.bid_px)
                    => out.side = "Sell"
               /\ (out.trade.price < q.ask_px /\ out.trade.price > q.bid_px)
                    => out.side = "Ambiguous"
               /\ out.quote_bid_px = q.bid_px
               /\ out.quote_ask_px = q.ask_px]_vars

\* with the tick rule disabled a trade printed exactly at the ask of a
\* stale quote, the later of two buffered quotes, was classified Buy
C20_Witness ==
  /\ classified # None
  /\ ~classifier.use_tick_rule
  /\ Len(classifier.quotes) = 2
  /\ classifier.quotes[1].ask_px # classifier.quotes[2].ask_px
  /\ classifier.quotes[2].ts_ms <= Unwrap(classified).trade.ts_ms
  /\ Unwrap(classified).side = "Buy"
  /\ Unwrap(classified).trade.price = Unwrap(classified).quote_ask_px
  /\ Unwrap(classified).quote_ask_px = classifier.quotes[2].ask_px
  /\ Unwrap(classified).quote_staleness_ms > classifier.max_staleness_ms
  /\ classifier.stats.stale_quote_trades = 1
  /\ classifier.stats.total_trades = 1

\* the quote of the buffer that is aligned to a timestamp: the most
\* recently added one among those at or before it
AlignedQuote(ts_ms) ==
  classifier.quotes[CHOOSE i \in QuotesAtOrBefore(ts_ms) :
                      \A j \in QuotesAtOrBefore(ts_ms) : j <= i]

\* C21: classify aligns a trade to the most recently added quote of the
\* buffer with ts_ms <= trade.ts_ms, never to a later one, and then
\* quote_staleness_ms = trade.ts_ms - quote.ts_ms >= 0; with no such quote
\* it reports no quote (bid and ask 0, staleness i64::MAX).
C21_QuoteAlignment ==
  [][ClassifyStep =>
       LET out == Unwrap(classified')
       IN IF QuotesAtOrBefore(out.trade.ts_ms) # {}
          THEN LET q == AlignedQuote(out.trade.ts_ms)
               IN /\ q.ts_ms <= out.trade.ts_ms
                  /\ out.quote_staleness_ms = out.trade.ts_ms - q.ts_ms
                  /\ out.quote_staleness_ms >= 0
                  /\ out.quote_bid_px = q.bid_px
                  /\ out.quote_ask_px = q.ask_px
          ELSE /\ out.quote_staleness_ms = I64Max
               /\ out.quote_bid_px = 0
               /\ out.quote_ask_px = 0]_vars

\* quotes were added out of timestamp order and the trade was aligned to
\* the one added last, not to the one with the greatest timestamp
C21_Witness ==
  /\ classified # None
  /\ Len(classifier.quotes) = 2
  /\ classifier.quotes[1].ts_ms = 300
  /\ classifier.quotes[2].ts_ms = 0
  /\ classifier.quotes[1].ask_px # classifier.quotes[2].ask_px
  /\ Unwrap(classified).trade.ts_ms = 2600
  /\ Unwrap(classified).quote_staleness_ms = 2600
  /\ Unwrap(classified).quote_ask_px = classifier.quotes[2].ask_px
  /\ classifier.stats.total_trades = 1

\* the result of the same call on a classifier that is the same but for a
\* max_staleness_ms that no staleness exceeds
NeverStale(trade) ==
  classify([classifier EXCEPT !.max_staleness_ms = I64Max], trade)

\* C22: for a trade aligned to a quote the returned ClassifiedTrade (side,
\* quote bid and ask, staleness) and the tick-rule state are the same
\* whether or not the staleness exceeds max_staleness_ms;
\* stats.stale_quote_trades increases by exactly one when the trade is
\* aligned to a quote and the staleness exceeds max_staleness_ms, and does
\* not change otherwise; the trade and volume counts do not depend on
\* staleness (total_staleness_ms adds the staleness capped at
\* 10 * max_staleness_ms).
C22_StalenessKeepsSide ==
  [][ClassifyStep =>
       LET out == Unwrap(classified')
           aligned == QuotesAtOrBefore(out.trade.ts_ms) # {}
           stale == aligned /\ out.quote_staleness_ms > classifier.max_staleness_ms
           ref == NeverStale(out.trade)
       IN /\ out = ref.out
          /\ classifier'.last_trade_price = ref.clf.last_trade_price
          /\ classifier'.last_trade_side = ref.clf.last_trade_side
          /\ classifier'.quotes = classifier.quotes
          /\ classifier'.stats.stale_quote_trades =
               classifier.stats.stale_quote_trades + (IF stale THEN 1 ELSE 0)
          /\ [classifier'.stats EXCEPT !.stale_quote_trades = 0,
                                       !.total_staleness_ms = 0]
               = [ref.clf.stats EXCEPT !.stale_quote_trades = 0,
                                       !.total_staleness_ms = 0]
          /\ classifier'.stats.total_staleness_ms =
               classifier.stats.total_staleness_ms
                 + Min(out.quote_staleness_ms,
                       classifier.max_staleness_ms * StalenessCap)]_vars

\* two trades were classified against quotes, one fresh and one stale,
\* and the stale one took the Sell side from its quote
C22_Witness ==
  /\ classified # None
  /\ classifier.stats.total_trades = 2
  /\ classifier.stats.stale_quote_trades = 1
  /\ Unwrap(classified).quote_staleness_ms > classifier.max_staleness_ms
  /\ Unwrap(classified).quote_staleness_ms < I64Max
  /\ Unwrap(classified).side = "Sell"
  /\ Unwrap(classified).trade.price <= Unwrap(classified).quote_bid_px
  /\ Unwrap(classified).trade.price < Unwrap(classified).quote_ask_px
  /\ ~classifier.use_tick_rule

\* the side of the trade of the step by the quote rule alone
SideByQuote ==
  LET out == Unwrap(classified')
  IN IF QuotesAtOrBefore(out.trade.ts_ms) = {} THEN "Ambiguous"
     ELSE LET q == AlignedQuote(out.trade.ts_ms)
          IN IF out.trade.price >= q.ask_px THEN "Buy"
             ELSE IF out.trade.price <= q.bid_px THEN "Sell"
             ELSE "Ambiguous"

\* C23: a trade that is Ambiguous by the quote rule, or has no quote, is,
\* with the tick rule enabled, Buy when its price is strictly above the
\* previous trade's price, Sell when strictly below, the last
\* non-ambiguous side (last_trade_side) when equal, and Ambiguous when
\* there is no previous trade; with the tick rule disabled it is Ambiguous.
C23_TickRule ==
  [][(ClassifyStep /\ SideByQuote = "Ambiguous") =>
       LET out == Unwrap(classified')
           price == out.trade.price
       IN IF ~classifier.use_tick_rule THEN out.side = "Ambiguous"
          ELSE IF ~IsSome(classifier.last_trade_price) THEN out.side = "Ambiguous"
          ELSE LET last_price == Unwrap(classifier.last_trade_price)
               IN /\ price > last_price => out.side = "Buy"
                  /\ price < last_price => out.side = "Sell"
                  /\ price = last_price => out.side = classifier.last_trade_side]_vars

\* the second of two trades printed inside the spread at the price of the
\* first, a Buy, and was classified Buy by zero-tick continuation
C23_Witness ==
  /\ classified # None
  /\ classifier.use_tick_rule
  /\ classifier.stats.total_trades = 2
  /\ classifier.stats.buy_trades = 2
  /\ Unwrap(classified).side = "Buy"
  /\ Unwrap(classified).trade.price > Unwrap(classified).quote_bid_px
  /\ Unwrap(classified).trade.price < Unwrap(classified).quote_ask_px

\* C36: after a classify call last_trade_price is the price of that trade
\* whatever its side, and last_trade_side is the side when it is Buy or
\* Sell and unchanged when it is Ambiguous; last_trade_side goes from Buy
\* or Sell to Ambiguous only by clear().
C36_TickReference ==
  [][/\ ClassifyStep =>
          LET out == Unwrap(classified')
          IN /\ classifier'.last_trade_price = Some(out.trade.price)
             /\ out.side \in {"Buy", "Sell"} =>
                  classifier'.last_trade_side = out.side
             /\ out.side = "Ambiguous" =>
                  classifier'.last_trade_side = classifier.last_trade_side
     /\ (classifier.last_trade_side # "Ambiguous"
           /\ classifier'.last_trade_side = "Ambiguous") =>
          /\ classifier'.quotes = <<>>
          /\ classifier'.last_trade_price = None
          /\ classifier'.stats = NewStats]_vars

\* without a quote, a first print was Ambiguous and the next one, at a
\* higher price, was classified Buy by the tick rule against it
C36_Witness ==
  /\ classified # None
  /\ classifier.use_tick_rule
  /\ classifier.stats.total_trades = 2
  /\ classifier.stats.ambiguous_trades = 1
  /\ classifier.stats.buy_trades = 1
  /\ Unwrap(classified).side = "Buy"
  /\ Unwrap(classified).quote_staleness_ms = I64Max
  /\ classifier.last_trade_side = "Buy"
  /\ classifier.last_trade_price = Some(Unwrap(classified).trade.price)

\* the prints of a batch: per run of equal timestamps one trade with the
\* run's timestamp and total size and a price with price * size = the run's
\* value; a run of one trade is that trade
RunPrint(batch, s) ==
  LET e == RunEnd(batch, s)
  IN IF e = s THEN batch[s]
     ELSE [ts_ms |-> batch[s].ts_ms,
           price |-> CHOOSE x \in 0..8 :
                       x * RunSize(batch, s, e) = RunValue(batch, s, e),
           size |-> RunSize(batch, s, e)]

\* the k-th smallest element of a set of numbers
RECURSIVE KthOf(_, _)
KthOf(S, k) ==
  LET lo == CHOOSE x \in S : \A y \in S : x <= y
  IN IF k = 1 THEN lo ELSE KthOf(S \ {lo}, k - 1)

\* the classifier and the results of classifying prints one after another
RECURSIVE ClassifyAll(_, _)
ClassifyAll(c, prints) ==
  IF prints = <<>> THEN [clf |-> c, result |-> <<>>]
  ELSE LET r == classify(c, Head(prints))
           rest == ClassifyAll(r.clf, Tail(prints))
       IN [clf |-> rest.clf, result |-> <<r.out>> \o rest.result]

\* the sum of the sizes of classified trades
RECURSIVE OutSize(_)
OutSize(outs) ==
  IF outs = <<>> THEN 0 ELSE Head(outs).trade.size + OutSize(Tail(outs))

\* C37: classify_batch returns one classified trade per maximal run of
\* contiguous trades with the same ts_ms, in input order, each the
\* classification of a single print with the run's ts_ms, total size and
\* size-weighted average price; output sizes sum to input sizes; statistics
\* and last-trade state advance once per run.
C37_BatchGrouping ==
  [][classified_batch' # None =>
       LET batch == Unwrap(classified_batch').trades
           result == Unwrap(classified_batch').result
           starts == RunStarts(batch)
           prints == [k \in 1..Cardinality(starts) |-> RunPrint(batch, KthOf(starts, k))]
           each == ClassifyAll(classifier, prints)
       IN /\ Len(result) = Cardinality(starts)
          /\ \A k \in DOMAIN result : result[k].trade = prints[k]
          /\ result = each.result
          /\ OutSize(result) = RunSize(batch, 1, Len(batch))
          /\ classifier' = each.clf
          /\ classifier'.stats.total_trades
               = classifier.stats.total_trades + Cardinality(starts)
          /\ classifier'.stats.total_volume
               = classifier.stats.total_volume + RunSize(batch, 1, Len(batch))
          /\ result # <<>> =>
               classifier'.last_trade_price
                 = Some(result[Len(result)].trade.price)]_vars

\* a run of two trades of different price and size was classified Sell as
\* one print at their size-weighted average, and the later trade on its own
C37_Witness ==
  /\ classified_batch # None
  /\ Len(Unwrap(classified_batch).trades) = 3
  /\ Len(Unwrap(classified_batch).result) = 2
  /\ Unwrap(classified_batch).trades[1].price # Unwrap(classified_batch).trades[2].price
  /\ Unwrap(classified_batch).result[1].trade = [ts_ms |-> 100, price |-> 5, size |-> 3]
  /\ Unwrap(classified_batch).result[1].side = "Sell"
  /\ Unwrap(classified_batch).result[2].trade.ts_ms = 2600
  /\ classifier.stats.total_trades = 2
  /\ classifier.stats.total_volume = 4

\* ==========================================================================
\* BarBuilder (ingestion/src/bar_builder.rs)
\*
\* Timestamps are milliseconds, prices are ticks, sizes are whole units.
\* A BTreeMap is a function whose domain is the set of its keys.  The quote
\* buffer is the Vec in arrival order.
\* ==========================================================================

\* Most trades one bucket receives before it is emitted.
MaxBarTrades == 2

\* max_quotes of BarBuilder::new, scaled down from 100_000.
BarMaxQuotes == 3

MinuteMs == 60000

CloseOffsetMs == 59999

BarTrades ==
  {[ts_ms |-> 1000, price |-> 5, size |-> 1],
   [ts_ms |-> 1000, price |-> 7, size |-> 2],
   [ts_ms |-> 61000, price |-> 6, size |-> 1]}

\* Two quotes on the closing millisecond of minute 0 and one on the first
\* millisecond of minute 60000.
BarQuotes ==
  {[ts_ms |-> 59999, bid_px |-> 4, ask_px |-> 6, bid_sz |-> 1, ask_sz |-> 2],
   [ts_ms |-> 59999, bid_px |-> 5, ask_px |-> 7, bid_sz |-> 3, ask_sz |-> 4],
   [ts_ms |-> 60000, bid_px |-> 6, ask_px |-> 8, bid_sz |-> 5, ask_sz |-> 6]}

FinalizeTimes == {1500, 61000, 121000}

ForceMinutes == {0, 60000}

PruneTimes == {60000}

ts_to_minute(ts_ms) == (ts_ms \div MinuteMs) * MinuteMs

NewBarInProgress(ts_min) ==
  [ts_min |-> ts_min, open |-> None, high |-> 0 - F64Max, low |-> F64Max,
   close |-> 0, volume |-> 0, vwap_numerator |-> 0, trade_count |-> 0]

bip_add_trade_open_last(bip, price, size) ==
  [bip EXCEPT
     !.open = Some(price),
     !.high = IF price > bip.high THEN price ELSE bip.high,
     !.low = IF price < bip.low THEN price ELSE bip.low,
     !.close = price,
     !.volume = bip.volume + size,
     !.vwap_numerator = bip.vwap_numerator + price * size,
     !.trade_count = bip.trade_count + 1]

bip_add_trade(bip, price, size) ==
  [bip EXCEPT
     !.open = IF IsSome(bip.open) THEN bip.open ELSE Some(price),
     !.high = IF price > bip.high THEN price ELSE bip.high,
     !.low = IF price < bip.low THEN price ELSE bip.low,
     !.close = price,
     !.volume = bip.volume + size,
     !.vwap_numerator = bip.vwap_numerator + price * size,
     !.trade_count = bip.trade_count + 1]

\* Some(<<numerator, volume>>): the quotient vwap_numerator / volume.
vwap(bip) ==
  IF bip.volume > 0 THEN Some(<<bip.vwap_numerator, bip.volume>>) ELSE None

to_bar(bip, quote) ==
  IF ~IsSome(bip.open) THEN None
  ELSE LET q == IF IsSome(quote)
                THEN Unwrap(quote)
                ELSE [bid_px |-> 0, ask_px |-> 0, bid_sz |-> 0, ask_sz |-> 0]
       IN Some([ts_min |-> bip.ts_min, open |-> Unwrap(bip.open),
                high |-> bip.high, low |-> bip.low, close |-> bip.close,
                volume |-> bip.volume, vwap |-> vwap(bip),
                trade_count |-> bip.trade_count,
                bid_px_close |-> q.bid_px, ask_px_close |-> q.ask_px,
                bid_sz_close |-> q.bid_sz, ask_sz_close |-> q.ask_sz])

NewBarBuilder == [bars |-> <<>>, quotes |-> <<>>, max_quotes |-> BarMaxQuotes]

\* quotes.drain(0..n)
Drain(s, n) == SubSeq(s, n + 1, Len(s))

bar_add_quote(b, quote) ==
  LET kept == IF Len(b.quotes) >= b.max_quotes
              THEN Drain(b.quotes, b.max_quotes \div 2)
              ELSE b.quotes
  IN [b EXCEPT !.quotes = Append(kept, quote)]

\* bars.entry(ts_min).or_insert_with(|| BarInProgress::new(ts_min))
BarEntry(bars, ts_min) ==
  IF ts_min \in DOMAIN bars THEN bars[ts_min] ELSE NewBarInProgress(ts_min)

MapInsert(m, k, v) == [x \in DOMAIN m \cup {k} |-> IF x = k THEN v ELSE m[x]]

MapRemove(m, ks) == [x \in DOMAIN m \ ks |-> m[x]]

bar_add_trade(b, trade) ==
  LET ts_min == ts_to_minute(trade.ts_ms)
  IN [b EXCEPT !.bars = MapInsert(b.bars, ts_min,
        bip_add_trade(BarEntry(b.bars, ts_min), trade.price, trade.size))]

IsSortedByTs(quotes) ==
  \A i, j \in DOMAIN quotes : i <= j => quotes[i].ts_ms <= quotes[j].ts_ms

SetMax(S) == CHOOSE x \in S : \A y \in S : y <= x

\* The results quotes.binary_search_by_key(&ts_ms, |q| q.ts_ms) allows.  Among
\* several elements with the sought key any index may be returned as Ok(i);
\* without a match Err(i) is the insertion point of a sorted slice.  On a
\* slice that is not sorted by the key the result is unspecified.
bar_find_quote(quotes, ts_ms) ==
  LET eq == {i \in DOMAIN quotes : quotes[i].ts_ms = ts_ms}
      lt == {i \in DOMAIN quotes : quotes[i].ts_ms < ts_ms}
  IN IF ~IsSortedByTs(quotes)
     THEN {None} \cup {Some(quotes[i]) : i \in DOMAIN quotes}
     ELSE IF eq # {} THEN {Some(quotes[i]) : i \in eq}
     ELSE IF lt # {} THEN {Some(quotes[SetMax(lt)])}
     ELSE {None}

keys_up_to(bars, current_minute) == {ts \in DOMAIN bars : ts <= current_minute}

keys_before(bars, current_minute) == {ts \in DOMAIN bars : ts < current_minute}

\* The keys of a BTreeMap in iteration order.
RECURSIVE AscendingKeys(_)
AscendingKeys(S) ==
  IF S = {} THEN <<>>
  ELSE LET k == CHOOSE x \in S : \A y \in S : x <= y
       IN <<k>> \o AscendingKeys(S \ {k})

\* completed.sort_by_key(|b| b.ts_min): a stable insertion sort.
RECURSIVE InsertByTsMin(_, _)
InsertByTsMin(sorted, bar) ==
  IF sorted = <<>> THEN <<bar>>
  ELSE IF sorted[Len(sorted)].ts_min <= bar.ts_min THEN Append(sorted, bar)
  ELSE Append(InsertByTsMin(SubSeq(sorted, 1, Len(sorted) - 1), bar),
              sorted[Len(sorted)])

RECURSIVE sort_by_ts_min(_)
sort_by_ts_min(s) ==
  IF s = <<>> THEN <<>>
  ELSE InsertByTsMin(sort_by_ts_min(SubSeq(s, 1, Len(s) - 1)), s[Len(s)])

\* The quote find_quote may hand to each bucket being finalized.
QuotePicks(b, keys) ==
  {f \in [keys -> {None} \cup {Some(b.quotes[i]) : i \in DOMAIN b.quotes}] :
     \A k \in keys : f[k] \in bar_find_quote(b.quotes, k + CloseOffsetMs)}

RECURSIVE PushBars(_, _, _)
PushBars(b, order, pick) ==
  IF order = <<>> THEN <<>>
  ELSE to_bar(b.bars[order[1]], pick[order[1]])
         \o PushBars(b, SubSeq(order, 2, Len(order)), pick)

finalize_before_through_current(b, current_ts_ms, pick) ==
  LET current_minute == ts_to_minute(current_ts_ms) + MinuteMs
      keys_to_remove == keys_before(b.bars, current_minute)
      quote_of == [k \in keys_to_remove |->
                     IF k \in DOMAIN pick THEN pick[k] ELSE None]
  IN [builder |-> [b EXCEPT !.bars = MapRemove(b.bars, keys_to_remove)],
      out |-> sort_by_ts_min(PushBars(b, AscendingKeys(keys_to_remove), quote_of))]

\* finalize_before for one outcome of the quote searches:
\* [builder |-> the builder afterwards, out |-> the returned Vec<Bar1m>].
finalize_before(b, current_ts_ms, pick) ==
  LET current_minute == ts_to_minute(current_ts_ms)
      keys_to_remove == keys_before(b.bars, current_minute)
  IN [builder |-> [b EXCEPT !.bars = MapRemove(b.bars, keys_to_remove)],
      out |-> sort_by_ts_min(PushBars(b, AscendingKeys(keys_to_remove), pick))]

\* force_finalize: [builder, out |-> Option<Bar1m>].
force_finalize(b, ts_min, quote) ==
  IF ts_min \in DOMAIN b.bars
  THEN [builder |-> [b EXCEPT !.bars = MapRemove(b.bars, {ts_min})],
        out |-> to_bar(b.bars[ts_min], quote)]
  ELSE [builder |-> b, out |-> None]

bar_clear(b) == [b EXCEPT !.bars = <<>>, !.quotes = <<>>]

prune_quotes(b, keep_after_ts) ==
  [b EXCEPT !.quotes = SelectSeq(b.quotes, LAMBDA q : q.ts_ms >= keep_after_ts)]

\* --- history kept beside the builder --------------------------------------
\* op:        the operation that ran last
\* arg:       the current_ts_ms of a finalize_before that ran last
\* added:     per minute key, the prints added since the key was last emitted
\*            or cleared
\* emitted:   minute keys finalize_before has emitted so far
\* twice:     finalize_before emitted a key it had emitted before
\* late:      a trade was added to a key finalize_before had already emitted
\* in_order:  trades came with non-decreasing ts_ms, and no trade was older
\*            than the current_ts of an earlier finalize_before
\* last_trade_ts, last_finalize_ts: the greatest of each so far, kept while
\*            in_order holds
\* quotes_in_order: quotes came with non-decreasing ts_ms
\* last_quote_ts: the ts_ms of the quote added last, kept while
\*            quotes_in_order holds

NewBarLog ==
  [op |-> "new", arg |-> None, added |-> <<>>, emitted |-> {}, twice |-> FALSE,
   late |-> FALSE, in_order |-> TRUE, last_trade_ts |-> None,
   last_finalize_ts |-> None, quotes_in_order |-> TRUE, last_quote_ts |-> None]

AddedOf(log, ts_min) == IF ts_min \in DOMAIN log.added THEN log.added[ts_min] ELSE <<>>

OptLeq(o, x) == ~IsSome(o) \/ Unwrap(o) <= x

OptMax(o, x) == IF IsSome(o) /\ Unwrap(o) > x THEN o ELSE Some(x)

BarInit ==
  /\ bar_builder = Some(NewBarBuilder)
  /\ completed = Some(<<>>)
  /\ bar_log = Some(NewBarLog)
  /\ SimIdle /\ HistIdle /\ VaIdle /\ ClfIdle /\ MetIdle /\ CtorIdle /\ FlowIdle /\ EngIdle

BarAddQuote ==
  \E quote \in BarQuotes :
    LET log == Unwrap(bar_log)
        ordered == log.quotes_in_order /\ OptLeq(log.last_quote_ts, quote.ts_ms)
    IN
    /\ bar_builder' = Some(bar_add_quote(Unwrap(bar_builder), quote))
    /\ bar_log' = Some([log EXCEPT
         !.op = "add_quote", !.arg = None,
         !.quotes_in_order = ordered,
         !.last_quote_ts = IF ordered THEN Some(quote.ts_ms) ELSE None])
    /\ completed' = Some(<<>>)
  /\ UNCHANGED <<simVars, histVars, vaVars, clfVars, metVars, ctorVars, flowVars, engVars>>

BarAddTrade ==
  \E trade \in BarTrades :
    LET b == Unwrap(bar_builder)
        log == Unwrap(bar_log)
        ts_min == ts_to_minute(trade.ts_ms)
        ordered == /\ log.in_order
                   /\ OptLeq(log.last_trade_ts, trade.ts_ms)
                   /\ OptLeq(log.last_finalize_ts, trade.ts_ms)
    IN /\ BarEntry(b.bars, ts_min).trade_count < MaxBarTrades
       /\ bar_builder' = Some(bar_add_trade(b, trade))
       /\ bar_log' = Some([log EXCEPT
            !.op = "add_trade", !.arg = None,
            !.added = MapInsert(log.added, ts_min,
                         Append(AddedOf(log, ts_min),
                                [price |-> trade.price, size |-> trade.size])),
            !.late = log.late \/ ts_min \in log.emitted,
            !.in_order = ordered,
            !.last_trade_ts = IF ordered THEN Some(trade.ts_ms) ELSE None,
            !.last_finalize_ts = IF ordered THEN log.last_finalize_ts ELSE None])
       /\ completed' = Some(<<>>)
       /\ UNCHANGED <<simVars, histVars, vaVars, clfVars, metVars, ctorVars, flowVars, engVars>>

FinalizeBefore ==
  \E current_ts_ms \in FinalizeTimes :
    LET b == Unwrap(bar_builder)
        log == Unwrap(bar_log)
        keys == keys_before(b.bars, ts_to_minute(current_ts_ms))
    IN \E pick \in QuotePicks(b, keys) :
         LET r == finalize_before(b, current_ts_ms, pick)
             out_keys == {r.out[i].ts_min : i \in DOMAIN r.out}
         IN /\ bar_builder' = Some(r.builder)
            /\ completed' = Some(r.out)
            /\ bar_log' = Some([log EXCEPT
                 !.op = "finalize_before",
                 !.arg = Some(current_ts_ms),
                 !.added = MapRemove(log.added, keys),
                 !.emitted = log.emitted \cup out_keys,
                 !.twice = \/ log.twice
                           \/ out_keys \cap log.emitted # {}
                           \/ Cardinality(out_keys) # Len(r.out),
                 !.last_finalize_ts =
                    IF log.in_order THEN OptMax(log.last_finalize_ts, current_ts_ms)
                    ELSE None])
            /\ UNCHANGED <<simVars, histVars, vaVars, clfVars, metVars, ctorVars, flowVars, engVars>>

ForceFinalize ==
  \E ts_min \in ForceMinutes :
    LET b == Unwrap(bar_builder)
        log == Unwrap(bar_log)
    IN \E quote \in bar_find_quote(b.quotes, ts_min + CloseOffsetMs) :
         LET r == force_finalize(b, ts_min, quote)
         IN /\ bar_builder' = Some(r.builder)
            /\ completed' = Some(r.out)
            /\ bar_log' = Some([log EXCEPT
                 !.op = "force_finalize", !.arg = None,
                 !.added = MapRemove(log.added, {ts_min})])
            /\ UNCHANGED <<simVars, histVars, vaVars, clfVars, metVars, ctorVars, flowVars, engVars>>

BarClear ==
  /\ bar_builder' = Some(bar_clear(Unwrap(bar_builder)))
  /\ bar_log' = Some([Unwrap(bar_log) EXCEPT !.op = "clear", !.arg = None, !.added = <<>>])
  /\ completed' = Some(<<>>)
  /\ UNCHANGED <<simVars, histVars, vaVars, clfVars, metVars, ctorVars, flowVars, engVars>>

PruneQuotes ==
  \E keep_after_ts \in PruneTimes :
    /\ bar_builder' = Some(prune_quotes(Unwrap(bar_builder), keep_after_ts))
    /\ bar_log' = Some([Unwrap(bar_log) EXCEPT !.op = "prune_quotes", !.arg = None])
    /\ completed' = Some(<<>>)
  /\ UNCHANGED <<simVars, histVars, vaVars, clfVars, metVars, ctorVars, flowVars, engVars>>

BarNext ==
  \/ BarAddQuote
  \/ BarAddTrade
  \/ FinalizeBefore
  \/ ForceFinalize
  \/ BarClear
  \/ PruneQuotes

BarSpec == BarInit /\ [][BarNext]_vars

\* --------------------------------------------------------------------------
\* Properties of the bar builder
\* --------------------------------------------------------------------------

Builder == Unwrap(bar_builder)

BarLog == Unwrap(bar_log)

Emitted == Unwrap(completed)

FinalizeStep == Unwrap(bar_log').op = "finalize_before"

StrictlyAscending(bars) ==
  \A i, j \in DOMAIN bars : i < j => bars[i].ts_min < bars[j].ts_min

\* C24: a call finalize_before(current_ts) returns one bar for each pending
\* bucket whose ts_min is below minute(current_ts) and no other bar, returns
\* them in ascending order of ts_min, removes exactly those buckets, and leaves
\* every bucket with ts_min >= minute(current_ts) pending and unchanged.
C24_FinalizeBefore ==
  [][FinalizeStep =>
       LET current_minute == ts_to_minute(Unwrap(Unwrap(bar_log').arg))
           before == Builder.bars
           after == Unwrap(bar_builder').bars
           out == Unwrap(completed')
           due == {k \in DOMAIN before : k < current_minute}
       IN /\ {out[i].ts_min : i \in DOMAIN out} = due
          /\ Len(out) = Cardinality(due)
          /\ StrictlyAscending(out)
          /\ DOMAIN after = DOMAIN before \ due
          /\ \A k \in DOMAIN after :
               k >= current_minute /\ after[k] = before[k]
          /\ Unwrap(bar_builder').quotes = Builder.quotes]_vars

\* C24 witness: finalize_before(61000) has returned the bar of minute 0 and
\* left the bucket of minute 60000 pending.
C24_Witness ==
  /\ IsSome(bar_log)
  /\ BarLog.op = "finalize_before"
  /\ BarLog.arg = Some(61000)
  /\ Len(Emitted) = 1
  /\ Emitted[1].ts_min = 0
  /\ DOMAIN Builder.bars = {60000}

EmitStep == Unwrap(bar_log').op \in {"finalize_before", "force_finalize"}

RECURSIVE SumOfSizes(_)
SumOfSizes(prints) ==
  IF prints = <<>> THEN 0
  ELSE prints[1].size + SumOfSizes(SubSeq(prints, 2, Len(prints)))

\* C25: every bar emitted (by finalize_before or force_finalize) has
\* low <= open <= high and low <= close <= high; its open is the price of the
\* first and its close the price of the last trade added for its minute since
\* that minute's bucket was last emitted or cleared, its volume the sum of
\* their sizes and its trade_count their number, which is at least 1: no bar
\* is emitted for a minute without trades.
C25_BarFromTrades ==
  [][EmitStep =>
       \A i \in DOMAIN Unwrap(completed') :
         LET bar == Unwrap(completed')[i]
             prints == AddedOf(BarLog, bar.ts_min)
         IN /\ Len(prints) >= 1
            /\ bar.ts_min = ts_to_minute(bar.ts_min)
            /\ bar.trade_count = Len(prints)
            /\ bar.open = prints[1].price
            /\ bar.close = prints[Len(prints)].price
            /\ bar.volume = SumOfSizes(prints)
            /\ bar.low <= bar.open /\ bar.open <= bar.high
            /\ bar.low <= bar.close /\ bar.close <= bar.high]_vars

\* C25 witness: a bar of two trades, opening at 7 and closing at 5, has been
\* emitted by finalize_before.
C25_Witness ==
  /\ IsSome(bar_log)
  /\ BarLog.op = "finalize_before"
  /\ \E i \in DOMAIN Emitted :
       /\ Emitted[i].trade_count = 2
       /\ Emitted[i].open = 7
       /\ Emitted[i].close = 5
       /\ Emitted[i].volume = 3

ZeroBook == [bid_px |-> 0, ask_px |-> 0, bid_sz |-> 0, ask_sz |-> 0]

ClosingBook(bar) ==
  [bid_px |-> bar.bid_px_close, ask_px |-> bar.ask_px_close,
   bid_sz |-> bar.bid_sz_close, ask_sz |-> bar.ask_sz_close]

BookOf(quote) ==
  [bid_px |-> quote.bid_px, ask_px |-> quote.ask_px,
   bid_sz |-> quote.bid_sz, ask_sz |-> quote.ask_sz]

\* The held quotes at or before the close of the minute ts_min.
Qualifying(quotes, ts_min) ==
  {i \in DOMAIN quotes : quotes[i].ts_ms <= ts_min + CloseOffsetMs}

\* C26: when quotes were added in non-decreasing ts_ms order, the closing bid
\* and ask prices and sizes of every emitted bar are those of the held quote
\* added last among those with ts_ms <= bar.ts_min + 59999 (so never of a
\* quote with ts_ms >= bar.ts_min + 60000), and all four are zero when no held
\* quote qualifies.
C26_ClosingQuote ==
  [][EmitStep /\ BarLog.quotes_in_order =>
       \A i \in DOMAIN Unwrap(completed') :
         LET bar == Unwrap(completed')[i]
             qual == Qualifying(Builder.quotes, bar.ts_min)
         IN ClosingBook(bar) =
              IF qual = {} THEN ZeroBook
              ELSE BookOf(Builder.quotes[SetMax(qual)])]_vars

\* C27: as long as trades are added with non-decreasing ts_ms and no trade is
\* older than the current_ts of an earlier finalize_before, no trade is added
\* to a minute finalize_before has already emitted, and finalize_before emits
\* no minute key a second time.
C27_NoRetroactiveInsertion ==
  IsSome(bar_log) /\ BarLog.in_order => ~BarLog.late /\ ~BarLog.twice

\* C27 witness: with trades and calls in order, finalize_before has emitted
\* minute 0 and then, after a trade at 61000, minute 60000.
C27_Witness ==
  /\ IsSome(bar_log)
  /\ BarLog.in_order
  /\ BarLog.op = "finalize_before"
  /\ BarLog.arg = Some(121000)
  /\ BarLog.emitted = {0, 60000}
  /\ BarLog.last_trade_ts = Some(61000)
  /\ BarLog.last_finalize_ts = Some(121000)
  /\ Len(Emitted) = 1

\* ==========================================================================
\* MetricsCalculator (backtest/src/metrics.rs)
\*
\* Money is in whole units.  A quotient the code computes in f64 is kept as
\* the pair <<numerator, denominator>>; f64::INFINITY is <<1, 0>>.  The Sharpe
\* and Sortino ratios (square roots of variances) are left out of the record.
\* ==========================================================================

\* Longest trade list given to calculate.
MaxMetTrades == 3

MetCapitals == {100}

MetTrades ==
  {[entry_ts |-> 0, exit_ts |-> 60000, pnl |-> 0 - 10, fees |-> 1, funding |-> 1],
   [entry_ts |-> 0, exit_ts |-> 120000, pnl |-> 0, fees |-> 1, funding |-> 0],
   [entry_ts |-> 0, exit_ts |-> 60000, pnl |-> 110, fees |-> 2, funding |-> 0],
   [entry_ts |-> 0, exit_ts |-> 180000, pnl |-> 0 - 15, fees |-> 1, funding |-> 0]}

SeqsUpTo(S, n) == UNION {[1..k -> S] : k \in 0..n}

MetInputs ==
  {[initial_capital |-> c, trades |-> ts] :
     c \in MetCapitals, ts \in SeqsUpTo(MetTrades, MaxMetTrades)}

Zero == <<0, 1>>

Abs(x) == IF x < 0 THEN 0 - x ELSE x

MaxOf(a, b) == IF b > a THEN b ELSE a

MinOf(a, b) == IF b < a THEN b ELSE a

\* BacktestMetrics::default(), with the running sums of calculate beside it.
DefaultMetrics ==
  [total_trades |-> 0, winning_trades |-> 0, losing_trades |-> 0,
   win_rate |-> Zero, gross_pnl |-> 0, net_pnl |-> 0, total_fees |-> 0,
   total_funding |-> 0, avg_win |-> Zero, avg_loss |-> Zero,
   profit_factor |-> Zero, max_drawdown |-> 0, max_drawdown_pct |-> Zero,
   total_return_pct |-> Zero, avg_trade_duration_min |-> Zero,
   largest_win |-> 0, largest_loss |-> 0,
   max_consecutive_wins |-> 0, max_consecutive_losses |-> 0]

NewTally ==
  [gross_wins |-> 0, gross_losses |-> 0, total_win_pnl |-> 0,
   total_loss_pnl |-> 0, total_duration |-> 0,
   current_wins |-> 0, current_losses |-> 0]

is_win_or_flat(trade) == trade.pnl >= 0

is_win(trade) == trade.pnl > 0

\* The loop over the trades: [m |-> metrics, t |-> running sums].
RECURSIVE tally_trades(_, _)
tally_trades(ts, acc) ==
  IF ts = <<>> THEN acc
  ELSE
    LET trade == ts[1]
        m == acc.m
        t == acc.t
        gross == trade.pnl + trade.fees + trade.funding
        m1 == [m EXCEPT !.net_pnl = m.net_pnl + trade.pnl,
                        !.total_fees = m.total_fees + trade.fees,
                        !.total_funding = m.total_funding + trade.funding,
                        !.gross_pnl = m.gross_pnl + gross]
        t1 == [t EXCEPT !.total_duration =
                 t.total_duration + (trade.exit_ts - trade.entry_ts)]
        next ==
          IF is_win(trade)
          THEN [m |-> [m1 EXCEPT
                  !.winning_trades = m.winning_trades + 1,
                  !.largest_win = MaxOf(m.largest_win, trade.pnl),
                  !.max_consecutive_wins =
                     MaxOf(m.max_consecutive_wins, t.current_wins + 1)],
                t |-> [t1 EXCEPT
                  !.total_win_pnl = t.total_win_pnl + trade.pnl,
                  !.gross_wins = t.gross_wins + gross,
                  !.current_wins = t.current_wins + 1,
                  !.current_losses = 0]]
          ELSE [m |-> [m1 EXCEPT
                  !.losing_trades = m.losing_trades + 1,
                  !.largest_loss = MinOf(m.largest_loss, trade.pnl),
                  !.max_consecutive_losses =
                     MaxOf(m.max_consecutive_losses, t.current_losses + 1)],
                t |-> [t1 EXCEPT
                  !.total_loss_pnl = t.total_loss_pnl + trade.pnl,
                  !.gross_losses = t.gross_losses + Abs(gross),
                  !.current_losses = t.current_losses + 1,
                  !.current_wins = 0]]
    IN tally_trades(Tail(ts), next)

\* The points build_equity_curve pushes after the starting point.
RECURSIVE curve_from(_, _, _)
curve_from(ts, eq, peak) ==
  IF ts = <<>> THEN <<>>
  ELSE
    LET eq1 == eq + ts[1].pnl
        peak1 == MaxOf(peak, eq1)
        drawdown == peak1 - eq1
        drawdown_pct == IF peak1 > 0 THEN <<drawdown * 100, peak1>> ELSE Zero
    IN <<[ts_ms |-> ts[1].exit_ts, equity |-> eq1, drawdown |-> drawdown,
          drawdown_pct |-> drawdown_pct]>>
         \o curve_from(Tail(ts), eq1, peak1)

build_equity_curve(initial_capital, ts) ==
  <<[ts_ms |-> 0, equity |-> initial_capital, drawdown |-> 0,
     drawdown_pct |-> Zero]>>
    \o curve_from(ts, initial_capital, initial_capital)

\* a < b for quotients with positive denominators.
FracLess(a, b) == a[1] * b[2] < b[1] * a[2]

FracEq(a, b) == a[1] * b[2] = b[1] * a[2]

\* if point.drawdown > metrics.max_drawdown { both fields are taken from point }
worse_point(m, point) ==
  IF point.drawdown > m.max_drawdown
  THEN [m EXCEPT !.max_drawdown = point.drawdown,
                 !.max_drawdown_pct = point.drawdown_pct]
  ELSE m

RECURSIVE scan_drawdown(_, _)
scan_drawdown(curve, m) ==
  IF curve = <<>> THEN m
  ELSE scan_drawdown(Tail(curve), worse_point(m, curve[1]))

calculate(initial_capital, ts) ==
  IF ts = <<>> THEN DefaultMetrics
  ELSE
    LET acc == tally_trades(ts, [m |-> [DefaultMetrics EXCEPT !.total_trades = Len(ts)],
                                 t |-> NewTally])
        m == acc.m
        t == acc.t
        m2 == [m EXCEPT
          !.win_rate = IF m.total_trades > 0
                       THEN <<m.winning_trades, m.total_trades>> ELSE Zero,
          !.avg_win = IF m.winning_trades > 0
                      THEN <<t.total_win_pnl, m.winning_trades>> ELSE Zero,
          !.avg_loss = IF m.losing_trades > 0
                       THEN <<t.total_loss_pnl, m.losing_trades>> ELSE Zero,
          !.profit_factor = IF t.gross_losses > 0
                            THEN <<t.gross_wins, t.gross_losses>>
                            ELSE IF t.gross_wins > 0 THEN <<1, 0>> ELSE Zero,
          !.avg_trade_duration_min =
             IF m.total_trades > 0
             THEN <<t.total_duration, m.total_trades * MinuteMs>> ELSE Zero,
          !.total_return_pct = <<m.net_pnl * 100, initial_capital>>]
    IN scan_drawdown(build_equity_curve(initial_capital, ts), m2)

MetInit ==
  /\ metrics_input \in {Some(i) : i \in MetInputs}
  /\ metrics_result = Some(<<>>)
  /\ SimIdle /\ HistIdle /\ VaIdle /\ ClfIdle /\ BarIdle /\ CtorIdle /\ FlowIdle /\ EngIdle

\* One call of calculate on the same calculator and the same list; the
\* results of the calls so far are kept in order.
MetCalculate ==
  LET i == Unwrap(metrics_input)
      results == Unwrap(metrics_result)
  IN /\ Len(results) < 2
     /\ metrics_result' = Some(Append(results, calculate(i.initial_capital, i.trades)))
     /\ UNCHANGED <<metrics_input, simVars, histVars, vaVars, clfVars, barVars, ctorVars, flowVars, engVars>>

MetNext == MetCalculate

MetSpec == MetInit /\ [][MetNext]_vars

\* --------------------------------------------------------------------------
\* Properties of the metrics
\* --------------------------------------------------------------------------

MetIn == Unwrap(metrics_input)

MetOut == Unwrap(metrics_result)

CountWins(ts) == Cardinality({k \in DOMAIN ts : ts[k].pnl > 0})

MetCurve == build_equity_curve(MetIn.initial_capital, MetIn.trades)

\* C29: for a non-empty trade list, max_drawdown is the greatest drawdown
\* (running peak equity - equity) of any point of the equity curve, and
\* max_drawdown_pct is the greatest drawdown_pct (drawdown / peak * 100) of
\* any point, each maximum taken over the whole curve on its own.
C29_MaxDrawdown ==
  IsSome(metrics_result) /\ MetIn.trades # <<>> =>
    \A k \in DOMAIN MetOut :
      /\ \E p \in DOMAIN MetCurve :
           MetOut[k].max_drawdown = MetCurve[p].drawdown
      /\ \A p \in DOMAIN MetCurve :
           MetCurve[p].drawdown <= MetOut[k].max_drawdown
      /\ \E p \in DOMAIN MetCurve :
           FracEq(MetOut[k].max_drawdown_pct, MetCurve[p].drawdown_pct)
      /\ \A p \in DOMAIN MetCurve :
           ~FracLess(MetOut[k].max_drawdown_pct, MetCurve[p].drawdown_pct)

(* -------------------------- OrderFlowAggregator ------------------------ *)

\* the largest volume added for one minute
MaxFlowVol == 3

FlowMaxMinutes == {0, 1, 2}
FlowMinutes == {0, 60000, 120000}
FlowOffsets == {0, 59999}
FlowSizes == {1, 2}
TradeSides == {"Buy", "Sell", "Ambiguous"}

\* the classified trades delivered to the aggregator; it reads ts_ms, size
\* and side of them
FlowTrades ==
  {[trade |-> [ts_ms |-> m + o, price |-> 10, size |-> z], side |-> d] :
     m \in FlowMinutes, o \in FlowOffsets, z \in FlowSizes, d \in TradeSides}

\* MinuteAccumulator::default
NewMinuteAccumulator == [buy_volume |-> 0, sell_volume |-> 0, ambiguous_volume |-> 0]

\* a variant of the accumulation that counts an ambiguous print as a buy
acc_add_ambiguous_as_buy(acc, ct) ==
  IF ct.side = "Sell" THEN [acc EXCEPT !.sell_volume = @ + ct.trade.size]
  ELSE [acc EXCEPT !.buy_volume = @ + ct.trade.size]

\* MinuteAccumulator::add
acc_add(acc, ct) ==
  IF ct.side = "Buy" THEN [acc EXCEPT !.buy_volume = @ + ct.trade.size]
  ELSE IF ct.side = "Sell" THEN [acc EXCEPT !.sell_volume = @ + ct.trade.size]
  ELSE [acc EXCEPT !.ambiguous_volume = @ + ct.trade.size]

\* MinuteAccumulator::to_metrics; the two ratios are fractions
\* <<numerator, denominator>>
to_metrics(acc) ==
  LET total == acc.buy_volume + acc.sell_volume + acc.ambiguous_volume
      of_1m == acc.buy_volume - acc.sell_volume
  IN [of_1m |-> of_1m,
      of_norm_1m |-> IF total > 0 THEN <<of_1m, total>> ELSE <<0, 1>>,
      total_volume |-> total,
      buy_volume |-> acc.buy_volume,
      sell_volume |-> acc.sell_volume,
      ambiguous_volume |-> acc.ambiguous_volume,
      ambiguous_frac |-> IF total > 0 THEN <<acc.ambiguous_volume, total>>
                         ELSE <<0, 1>>]

\* OrderFlowAggregator::new
NewOrderFlowAggregator(max_minutes) == [minutes |-> <<>>, max_minutes |-> max_minutes]

\* the loop of add_trade that removes the first (smallest) key while more
\* than max_minutes entries are held
RECURSIVE prune_minutes(_, _)
prune_minutes(minutes, max_minutes) ==
  IF Cardinality(DOMAIN minutes) > max_minutes
  THEN LET oldest == CHOOSE k \in DOMAIN minutes : \A j \in DOMAIN minutes : k <= j
       IN prune_minutes([k \in DOMAIN minutes \ {oldest} |-> minutes[k]], max_minutes)
  ELSE minutes

\* OrderFlowAggregator::add_trade
flow_add_trade(a, ct) ==
  LET ts_min == ts_to_minute(ct.trade.ts_ms)
      acc == IF ts_min \in DOMAIN a.minutes THEN a.minutes[ts_min]
             ELSE NewMinuteAccumulator
      added == [k \in DOMAIN a.minutes \cup {ts_min} |->
                  IF k = ts_min THEN acc_add(acc, ct) ELSE a.minutes[k]]
  IN [a EXCEPT !.minutes = prune_minutes(added, a.max_minutes)]

\* OrderFlowAggregator::get_minute
get_minute(a, ts_min) ==
  IF ts_min \in DOMAIN a.minutes THEN Some(to_metrics(a.minutes[ts_min])) ELSE None

\* OrderFlowAggregator::clear
flow_clear(a) == [a EXCEPT !.minutes = <<>>]

FlowInit ==
  /\ order_flow \in {NewOrderFlowAggregator(n) : n \in FlowMaxMinutes}
  /\ flow_metrics = None
  /\ flow_log = [m \in FlowMinutes |-> NewMinuteAccumulator]
  /\ SimIdle /\ HistIdle /\ VaIdle /\ ClfIdle /\ BarIdle /\ MetIdle /\ CtorIdle /\ EngIdle

\* the volume added so far for the minute of a trade
FlowAdded(ct) ==
  to_metrics(flow_log[ts_to_minute(ct.trade.ts_ms)]).total_volume

FlowAddTrade ==
  /\ \E ct \in FlowTrades :
       /\ FlowAdded(ct) + ct.trade.size <= MaxFlowVol
       /\ order_flow' = flow_add_trade(order_flow, ct)
       /\ flow_log' = [flow_log EXCEPT ![ts_to_minute(ct.trade.ts_ms)] =
                         IF ct.side = "Buy" THEN [@ EXCEPT !.buy_volume = @ + ct.trade.size]
                         ELSE IF ct.side = "Sell"
                         THEN [@ EXCEPT !.sell_volume = @ + ct.trade.size]
                         ELSE [@ EXCEPT !.ambiguous_volume = @ + ct.trade.size]]
  /\ flow_metrics' = None
  /\ UNCHANGED <<simVars, histVars, vaVars, clfVars, barVars, metVars, ctorVars, engVars>>

FlowGetMinute ==
  /\ \E ts_min \in FlowMinutes :
       flow_metrics' = Some([ts_min |-> ts_min, metrics |-> get_minute(order_flow, ts_min)])
  /\ UNCHANGED <<order_flow, flow_log>>
  /\ UNCHANGED <<simVars, histVars, vaVars, clfVars, barVars, metVars, ctorVars, engVars>>

FlowClear ==
  /\ order_flow' = flow_clear(order_flow)
  /\ flow_metrics' = None
  /\ flow_log' = [m \in FlowMinutes |-> NewMinuteAccumulator]
  /\ UNCHANGED <<simVars, histVars, vaVars, clfVars, barVars, metVars, ctorVars, engVars>>

FlowNext == FlowAddTrade \/ FlowGetMinute \/ FlowClear

FlowSpec == FlowInit /\ [][FlowNext]_vars

(* ------------------------- properties: order flow ---------------------- *)

FlowKeys == DOMAIN order_flow.minutes

\* the step adds a trade
FlowAddStep == flow_log' # flow_log /\ flow_log' # [m \in FlowMinutes |-> NewMinuteAccumulator]

\* the minute whose trade the step adds
FlowStepMinute == CHOOSE m \in FlowMinutes : flow_log'[m] # flow_log[m]

\* an add_trade leaves no more than max_minutes entries, and the entries it
\* removes are smaller than every entry it keeps
FlowEviction ==
  FlowAddStep =>
    LET before == FlowKeys \cup {FlowStepMinute}
        after == DOMAIN order_flow'.minutes
    IN /\ Cardinality(after) <= order_flow.max_minutes
       /\ after \subseteq before
       /\ Cardinality(after) = Min(Cardinality(before), order_flow.max_minutes)
       /\ \A gone \in before \ after : \A kept \in after : gone < kept

\* a get_minute of a retained minute returns the volumes added for it
FlowAnswer ==
  (flow_metrics' # None /\ Unwrap(flow_metrics').ts_min \in FlowKeys) =>
    LET ts_min == Unwrap(flow_metrics').ts_min
        r == Unwrap(flow_metrics').metrics
    IN /\ IsSome(r)
       /\ Unwrap(r).buy_volume = flow_log[ts_min].buy_volume
       /\ Unwrap(r).sell_volume = flow_log[ts_min].sell_volume
       /\ Unwrap(r).ambiguous_volume = flow_log[ts_min].ambiguous_volume
       /\ Unwrap(r).total_volume =
            Unwrap(r).buy_volume + Unwrap(r).sell_volume + Unwrap(r).ambiguous_volume
       /\ Unwrap(r).of_1m = Unwrap(r).buy_volume - Unwrap(r).sell_volume

\* C38: after every add_trade at most max_minutes minutes are retained,
\* eviction removes the smallest minute keys, and for every retained minute
\* get_minute returns the buy, sell and ambiguous volumes added for that
\* minute, with total_volume their sum and of_1m = buy - sell.
C38_OrderFlowRetention == [][FlowEviction /\ FlowAnswer]_vars

\* after an eviction, the metrics of a retained minute with volume on all
\* three sides
C38_Witness ==
  /\ order_flow.max_minutes = 2
  /\ FlowKeys = {60000, 120000}
  /\ to_metrics(flow_log[0]).total_volume > 0
  /\ flow_metrics # None
  /\ Unwrap(flow_metrics).ts_min = 60000
  /\ Unwrap(flow_metrics).metrics # None
  /\ Unwrap(Unwrap(flow_metrics).metrics).buy_volume = 1
  /\ Unwrap(Unwrap(flow_metrics).metrics).sell_volume = 1
  /\ Unwrap(Unwrap(flow_metrics).metrics).ambiguous_volume = 1

(* ---------------------------- RollingVolatility ------------------------ *)

\* The standard deviation of log returns is a float computation that is not
\* evaluated here: the calculator is its window, the number of returns it
\* holds and the previous price.

\* RollingVolatility::new
NewRollingVolatility(window) ==
  [window |-> window, returns_len |-> 0, prev_price |-> None]

\* RollingVolatility::add_price with add_return: a return is pushed when
\* both prices are positive, after the oldest is popped from a full window
vol_add_price(v, price) ==
  LET pushes == IsSome(v.prev_price) /\ Unwrap(v.prev_price) > 0 /\ price > 0
  IN [v EXCEPT !.returns_len = IF ~pushes THEN @
                               ELSE IF @ >= v.window THEN MaxOf(@ - 1, 0) + 1
                               ELSE @ + 1,
               !.prev_price = Some(price)]

\* RollingVolatility::volatility is Some(_) from two returns on
has_volatility(v) == v.returns_len >= 2

\* ==========================================================================
\* Construction of the core components
\* (features/src/engine.rs, value_area.rs, histogram.rs,
\*  backtest/src/fill_model.rs, simulator.rs, core/src/error.rs)
\*
\* Every constructor has the signature `-> Self`.  An outcome is
\* [ok |-> TRUE, value |-> the instance], or [ok |-> FALSE, error |-> e] for
\* a constructor that returns an error.
\* ==========================================================================

Components ==
  {"FeatureEngine", "ValueAreaComputer", "RollingHistogram", "FillModel",
   "BacktestSimulator"}

\* Config (core/src/config.rs) and BacktestConfig, reduced to the parameters
\* the constructors read; tick_size -1 and the fractions 0 and 3/2 are not
\* valid parameters.
CtorTickSizes == {0 - 1, 1}

CtorFractions == {<<0, 1>>, <<7, 10>>, <<3, 2>>}

CtorConfigs ==
  [tick_size : CtorTickSizes, rolling_window_minutes : {1},
   va_fraction : CtorFractions, min_va_bins : {3}, initial_capital : {1000},
   bin_width_max_ticks : {3}, rebucket_interval_minutes : {2},
   rebucket_change_pct : {<<1, 2>>}, spread_lookback_minutes : {1}]

Ok(value) == [ok |-> TRUE, value |-> value]

\* ValueAreaComputer::new
new_value_area_computer(cfg) == Ok([config |-> cfg])

\* RollingHistogram::new
new_rolling_histogram(base_bin, window) == Ok(NewHistogram(base_bin, window))

FillModelConfigOf(cfg) ==
  [slippage_ticks_entry |-> 1, slippage_ticks_exit |-> 1,
   tick_size |-> cfg.tick_size, taker_fee_bps |-> taker_fee_bps]

\* FillModel::new
new_fill_model(cfg) == Ok([config |-> cfg])

\* BacktestSimulator::new
new_backtest_simulator(cfg) ==
  Ok([config |-> cfg,
      fill_model |-> new_fill_model(cfg.fill_model).value,
      position_tracker |-> [position |-> None, trades |-> <<>>],
      equity |-> cfg.initial_capital,
      last_funding_ts |-> None,
      funding_interval_ms |-> funding_interval_ms])

\* FeatureEngine::new
new_feature_engine(cfg) ==
  LET rolling_window == cfg.rolling_window_minutes
      tick_size == cfg.tick_size
  IN Ok([volatility |-> NewRollingVolatility(rolling_window),
         histogram |-> new_rolling_histogram(tick_size, rolling_window).value,
         va_computer |-> new_value_area_computer(
                           [va_fraction |-> cfg.va_fraction,
                            min_bins |-> cfg.min_va_bins]).value,
         order_flow |-> NewOrderFlowAggregator(rolling_window),
         spreads |-> <<>>,
         tick_size |-> tick_size,
         bin_width_max |-> cfg.bin_width_max_ticks * tick_size,
         spread_lookback |-> cfg.spread_lookback_minutes,
         rolling_window |-> rolling_window,
         current_bin_width |-> tick_size,
         last_rebucket_min |-> None,
         rebucket_interval |-> cfg.rebucket_interval_minutes,
         rebucket_change_pct |-> cfg.rebucket_change_pct])

CtorInit ==
  /\ ctor_input \in {Some(c) : c \in CtorConfigs}
  /\ ctor_result = Some([c \in Components |-> None])
  /\ SimIdle /\ HistIdle /\ VaIdle /\ ClfIdle /\ BarIdle /\ MetIdle /\ FlowIdle /\ EngIdle

NotBuilt(component) == ~IsSome(Unwrap(ctor_result)[component])

WithOutcome(component, outcome) ==
  Some([Unwrap(ctor_result) EXCEPT ![component] = Some(outcome)])

ConstructFeatureEngine ==
  /\ NotBuilt("FeatureEngine")
  /\ ctor_result' =
       WithOutcome("FeatureEngine", new_feature_engine(Unwrap(ctor_input)))
  /\ UNCHANGED <<ctor_input, simVars, histVars, vaVars, clfVars, barVars, metVars, flowVars, engVars>>

ConstructValueAreaComputer ==
  /\ NotBuilt("ValueAreaComputer")
  /\ ctor_result' =
       WithOutcome("ValueAreaComputer",
                   new_value_area_computer(
                     [va_fraction |-> Unwrap(ctor_input).va_fraction,
                      min_bins |-> Unwrap(ctor_input).min_va_bins]))
  /\ UNCHANGED <<ctor_input, simVars, histVars, vaVars, clfVars, barVars, metVars, flowVars, engVars>>

ConstructRollingHistogram ==
  /\ NotBuilt("RollingHistogram")
  /\ ctor_result' =
       WithOutcome("RollingHistogram",
                   new_rolling_histogram(Unwrap(ctor_input).tick_size,
                                         Unwrap(ctor_input).rolling_window_minutes))
  /\ UNCHANGED <<ctor_input, simVars, histVars, vaVars, clfVars, barVars, metVars, flowVars, engVars>>

ConstructFillModel ==
  /\ NotBuilt("FillModel")
  /\ ctor_result' =
       WithOutcome("FillModel", new_fill_model(FillModelConfigOf(Unwrap(ctor_input))))
  /\ UNCHANGED <<ctor_input, simVars, histVars, vaVars, clfVars, barVars, metVars, flowVars, engVars>>

ConstructBacktestSimulator ==
  /\ NotBuilt("BacktestSimulator")
  /\ ctor_result' =
       WithOutcome("BacktestSimulator",
                   new_backtest_simulator(
                     [initial_capital |-> Unwrap(ctor_input).initial_capital,
                      fill_model |-> FillModelConfigOf(Unwrap(ctor_input)),
                      funding_rate_8h_bps |-> funding_rate_8h_bps,
                      tp1_pct |-> <<3, 10>>,
                      move_stop_to_breakeven |-> TRUE]))
  /\ UNCHANGED <<ctor_input, simVars, histVars, vaVars, clfVars, barVars, metVars, flowVars, engVars>>

CtorNext ==
  \/ ConstructFeatureEngine
  \/ ConstructValueAreaComputer
  \/ ConstructRollingHistogram
  \/ ConstructFillModel
  \/ ConstructBacktestSimulator

CtorSpec == CtorInit /\ [][CtorNext]_vars

\* --------------------------------------------------------------------------
\* Properties of construction
\* --------------------------------------------------------------------------

InvalidTickSize(cfg) == cfg.tick_size < 0

InvalidVaFraction(cfg) ==
  ~(cfg.va_fraction[1] > 0 /\ cfg.va_fraction[1] <= cfg.va_fraction[2])

\* The configuration is invalid in a parameter the component is built from.
InvalidFor(component, cfg) ==
  CASE component = "FeatureEngine" -> InvalidTickSize(cfg) \/ InvalidVaFraction(cfg)
    [] component = "ValueAreaComputer" -> InvalidVaFraction(cfg)
    [] component \in {"RollingHistogram", "FillModel", "BacktestSimulator"} ->
         InvalidTickSize(cfg)

\* C30: the constructor of a core component (FeatureEngine, ValueAreaComputer,
\* RollingHistogram, FillModel, BacktestSimulator) given a configuration with
\* a negative tick_size or a va_fraction outside (0, 1] returns an error, so
\* no instance built from an invalid configuration exists.
C30_InvalidConfigRejected ==
  IsSome(ctor_result) =>
    \A c \in Components :
      IsSome(Unwrap(ctor_result)[c]) /\ InvalidFor(c, Unwrap(ctor_input))
        => ~Unwrap(Unwrap(ctor_result)[c]).ok

(* ------------------------------ FeatureEngine -------------------------- *)

\* Prices are counted in half ticks (tick_size 2), so that half a bin width
\* is a whole number.  The quote-imbalance tracker, which only add_quote
\* writes, is left out.

\* the number of trades delivered to the engine
MaxEngTrades == 4

EngMinutes == {0, 60000, 120000, 180000}

EngConfigs ==
  [tick_size : {2}, rolling_window_minutes : {2}, va_fraction : {<<7, 10>>},
   min_va_bins : {1}, bin_width_max_ticks : {3},
   rebucket_interval_minutes : {2, 5}, rebucket_change_pct : {<<1, 2>>},
   spread_lookback_minutes : {1}]

\* per minute a buy of 1 at 13 and a sell of 2 at 15
EngTrades ==
  {[trade |-> [ts_ms |-> m + 1000, price |-> x[1], size |-> x[2]], side |-> x[3]] :
     m \in EngMinutes, x \in {<<13, 1, "Buy">>, <<15, 2, "Sell">>}}

EngBars ==
  {[ts_min |-> m, bid_px_close |-> 9, ask_px_close |-> 11,
    bid_sz_close |-> 1, ask_sz_close |-> 1] : m \in EngMinutes}

\* the values alpha_bin * mid_price * sigma may take once the volatility is
\* defined
RawWidths == {0, 3, 9}

\* a variant of the aggregation that keeps the volume of one base bin per key
aggregate_to_overwrite(h, bin_width) ==
  LET keys == {(p \div bin_width) * bin_width : p \in DOMAIN h.aggregated}
  IN [k \in keys |->
        h.aggregated[CHOOSE p \in DOMAIN h.aggregated :
                       /\ (p \div bin_width) * bin_width = k
                       /\ \A q \in DOMAIN h.aggregated :
                            (q \div bin_width) * bin_width = k => q <= p]]

\* RollingHistogram::aggregate_to
aggregate_to(h, bin_width) ==
  LET keys == {(p \div bin_width) * bin_width : p \in DOMAIN h.aggregated}
  IN [k \in keys |->
        MapSum([p \in {q \in DOMAIN h.aggregated : (q \div bin_width) * bin_width = k}
                  |-> h.aggregated[p]])]

\* Bar1m::mid_close, spread_close
mid_close(bar) == (bar.bid_px_close + bar.ask_px_close) \div 2
spread_close(bar) == bar.ask_px_close - bar.bid_px_close

\* FeatureEngine::round_to_tick: f64::round rounds half away from zero
round_to_tick(e, value) ==
  IF value >= 0
  THEN ((2 * value + e.tick_size) \div (2 * e.tick_size)) * e.tick_size
  ELSE 0 - ((2 * (0 - value) + e.tick_size) \div (2 * e.tick_size)) * e.tick_size

\* round_to_tick(raw).max(tick_size).min(bin_width_max)
new_bin_width(e, raw) ==
  MinOf(MaxOf(round_to_tick(e, raw), e.tick_size), e.bin_width_max)

\* i64 division truncates towards zero
TruncDiv(a, b) == IF a >= 0 THEN a \div b ELSE 0 - ((0 - a) \div b)

\* a variant of the gate that needs the change to exceed the threshold
should_rebucket_above(e, ts_min, w_new) ==
  IF IsSome(e.last_rebucket_min)
  THEN LET minutes_since == TruncDiv(ts_min - Unwrap(e.last_rebucket_min), MinuteMs)
           pct_change == IF e.current_bin_width > 0
                         THEN <<Abs(w_new - e.current_bin_width), e.current_bin_width>>
                         ELSE <<1, 1>>
       IN \/ minutes_since >= e.rebucket_interval
          \/ FracLess(e.rebucket_change_pct, pct_change)
  ELSE TRUE

\* the gate of maybe_rebucket
should_rebucket(e, ts_min, w_new) ==
  IF IsSome(e.last_rebucket_min)
  THEN LET minutes_since == TruncDiv(ts_min - Unwrap(e.last_rebucket_min), MinuteMs)
           pct_change == IF e.current_bin_width > 0
                         THEN <<Abs(w_new - e.current_bin_width), e.current_bin_width>>
                         ELSE <<1, 1>>
       IN \/ minutes_since >= e.rebucket_interval
          \/ ~FracLess(pct_change, e.rebucket_change_pct)
  ELSE TRUE

\* alpha_bin * mid_price * volatility().unwrap_or(0.0), from the value the
\* product takes when the volatility is defined
raw_width(e, sigma_width) ==
  IF has_volatility(e.volatility) THEN sigma_width ELSE 0

\* FeatureEngine::maybe_rebucket
maybe_rebucket(e, ts_min, sigma_width) ==
  LET w_new == new_bin_width(e, raw_width(e, sigma_width))
  IN IF should_rebucket(e, ts_min, w_new)
     THEN [e EXCEPT !.current_bin_width = w_new,
                    !.last_rebucket_min = Some(ts_min)]
     ELSE e

\* FeatureEngine::add_trade
eng_add_trade(e, ct) ==
  [e EXCEPT !.histogram = add_trade(@, ts_to_minute(ct.trade.ts_ms),
                                    ct.trade.price, ct.trade.size),
            !.order_flow = flow_add_trade(@, ct)]

\* FeatureEngine::add_bar
eng_add_bar(e, bar, sigma_width) ==
  maybe_rebucket(
    [e EXCEPT !.volatility = vol_add_price(@, mid_close(bar)),
              !.spreads = LastN(Append(@, <<bar.ts_min, spread_close(bar)>>),
                                e.spread_lookback),
              !.histogram = flush_current_minute(@)],
    bar.ts_min, sigma_width)

\* FeatureEngine::compute_features; agg_hist is the histogram the value area
\* is computed from, and sigma_240, qimb_close, qimb_ema and spread_avg_60m
\* are left out
compute_features(e, ts_min, bar) ==
  LET agg_hist == aggregate_to(e.histogram, e.current_bin_width)
      minute == get_minute(e.order_flow, ts_min)
  IN [ts_min |-> ts_min,
      mid_close |-> mid_close(bar),
      bin_width |-> e.current_bin_width,
      agg_hist |-> agg_hist,
      va |-> va_compute(e.va_computer.config, agg_hist, e.current_bin_width),
      order_flow |-> IF IsSome(minute) THEN Unwrap(minute)
                     ELSE to_metrics(NewMinuteAccumulator)]

EngInit ==
  /\ engine \in {new_feature_engine(c).value : c \in EngConfigs}
  /\ features = None
  /\ eng_log = [last_trade_min |-> None, last_bar_min |-> None,
                trade_count |-> 0, raw |-> 0]
  /\ SimIdle /\ HistIdle /\ VaIdle /\ ClfIdle /\ BarIdle /\ MetIdle /\ CtorIdle /\ FlowIdle

\* Trades arrive in non-decreasing time and none for a minute whose bar was
\* delivered.
EngAddTrade ==
  /\ eng_log.trade_count < MaxEngTrades
  /\ \E ct \in EngTrades :
       LET ts_min == ts_to_minute(ct.trade.ts_ms)
       IN /\ IsSome(eng_log.last_trade_min) => Unwrap(eng_log.last_trade_min) <= ts_min
          /\ IsSome(eng_log.last_bar_min) => Unwrap(eng_log.last_bar_min) < ts_min
          /\ engine' = eng_add_trade(engine, ct)
          /\ eng_log' = [eng_log EXCEPT !.last_trade_min = Some(ts_min),
                                        !.trade_count = @ + 1]
  /\ features' = None
  /\ UNCHANGED <<simVars, histVars, vaVars, clfVars, barVars, metVars, ctorVars, flowVars>>

\* Bars arrive in ascending minutes, each after the trades of its minute
\* and no later than the first trades of the following minute.
EngAddBar ==
  /\ \E bar \in EngBars, sigma_width \in RawWidths :
       /\ IsSome(eng_log.last_bar_min) => Unwrap(eng_log.last_bar_min) < bar.ts_min
       /\ IsSome(eng_log.last_trade_min) =>
            Unwrap(eng_log.last_trade_min) <= bar.ts_min + MinuteMs
       /\ engine' = eng_add_bar(engine, bar, sigma_width)
       /\ eng_log' = [eng_log EXCEPT
            !.last_bar_min = Some(bar.ts_min),
            !.raw = raw_width([engine EXCEPT !.volatility =
                                 vol_add_price(@, mid_close(bar))], sigma_width)]
  /\ features' = None
  /\ UNCHANGED <<simVars, histVars, vaVars, clfVars, barVars, metVars, ctorVars, flowVars>>

\* The features are computed for the bar that was delivered last.
EngComputeFeatures ==
  /\ \E bar \in EngBars :
       /\ eng_log.last_bar_min = Some(bar.ts_min)
       /\ features' = Some(compute_features(engine, bar.ts_min, bar))
  /\ UNCHANGED <<engine, eng_log>>
  /\ UNCHANGED <<simVars, histVars, vaVars, clfVars, barVars, metVars, ctorVars, flowVars>>

EngNext == EngAddTrade \/ EngAddBar \/ EngComputeFeatures

EngSpec == EngInit /\ [][EngNext]_vars

(* ------------------------ properties: feature engine ------------------- *)

EngHist == engine.histogram

\* the volume of the base bins among `bins` that fall into the bin of
\* lower edge k and width w
RECURSIVE KeyVolume(_, _, _, _)
KeyVolume(agg, bins, w, k) ==
  IF bins = {} THEN 0
  ELSE LET p == CHOOSE x \in bins : TRUE
       IN (IF (p \div w) * w = k THEN agg[p] ELSE 0)
            + KeyVolume(agg, bins \ {p}, w, k)

\* C34: compute_features, and the aggregate_to(current_bin_width) it calls,
\* leave the engine with the histogram's snapshots, aggregate and
\* in-progress bucket as they are; the map returned has the keys
\* floor(p / bin_width) * bin_width of the base bins p, each with the sum of
\* the volumes of the base bins that map to it, and the aggregate's total.
C34_AggregateToPure ==
  [][features' # None =>
       LET agg_hist == Unwrap(features').agg_hist
           w == engine.current_bin_width
           base == DOMAIN EngHist.aggregated
       IN /\ engine' = engine
          /\ DOMAIN agg_hist = {(p \div w) * w : p \in base}
          /\ \A k \in DOMAIN agg_hist :
               agg_hist[k] = KeyVolume(EngHist.aggregated, base, w, k)
          /\ MapSum(agg_hist) = total_volume(EngHist)]_vars

\* two base bins were merged into one bin of width 4 while the in-progress
\* bucket holds volume
C34_Witness ==
  /\ features # None
  /\ engine.current_bin_width = 4
  /\ DOMAIN EngHist.aggregated = {12, 14}
  /\ DOMAIN Unwrap(features).agg_hist = {12}
  /\ Unwrap(features).agg_hist[12] >= 3
  /\ Len(EngHist.minute_volumes) = 2
  /\ DOMAIN EngHist.current_bins # {}

\* the step delivers a bar
EngBarStep == eng_log'.last_bar_min # eng_log.last_bar_min

\* the multiple of the tick size nearest to a value, halves away from zero
NearestTick(value) ==
  CHOOSE w \in {n * engine.tick_size : n \in -8..8} :
    /\ 2 * Abs(w - value) <= engine.tick_size
    /\ 2 * Abs(w - value) = engine.tick_size => Abs(w) > Abs(value)

\* the width an add_bar step computes: tick-rounded and clamped to
\* [tick_size, bin_width_max]
EngNewWidth ==
  LET w == NearestTick(eng_log'.raw)
  IN IF w < engine.tick_size THEN engine.tick_size
     ELSE IF w > engine.bin_width_max THEN engine.bin_width_max
     ELSE w

\* the three conditions of the gate, for the bar a step delivers
EngGate ==
  \/ engine.last_rebucket_min = None
  \/ Unwrap(eng_log'.last_bar_min) - Unwrap(engine.last_rebucket_min)
       >= engine.rebucket_interval * MinuteMs
  \/ Abs(EngNewWidth - engine.current_bin_width) * engine.rebucket_change_pct[2]
       >= engine.rebucket_change_pct[1] * engine.current_bin_width

\* C35: an add_bar sets current_bin_width to the new width and
\* last_rebucket_min to the bar's minute iff it never rebucketed, or
\* rebucket_interval minutes have passed, or the relative change of the
\* width is >= rebucket_change_pct; otherwise both keep their values; and
\* the histogram is what the flush of the bar leaves.
C35_RebucketGate ==
  [][EngBarStep =>
       /\ EngGate =>
            /\ engine'.current_bin_width = EngNewWidth
            /\ engine'.last_rebucket_min = eng_log'.last_bar_min
       /\ ~EngGate =>
            /\ engine'.current_bin_width = engine.current_bin_width
            /\ engine'.last_rebucket_min = engine.last_rebucket_min
       /\ engine'.histogram = flush_current_minute(EngHist)]_vars

\* the width went from 4 to 6 on the change alone: the interval of 5
\* minutes cannot have passed
C35_Witness ==
  /\ engine.rebucket_interval = 5
  /\ engine.current_bin_width = 6
  /\ engine.last_rebucket_min = Some(180000)
  /\ eng_log.last_bar_min = Some(180000)
  /\ eng_log.raw = 9
  /\ Len(EngHist.minute_volumes) = 2

\* C40: the minute snapshots the histogram retains have pairwise distinct
\* minute keys, whenever trades arrive in non-decreasing time and each bar
\* after the trades of its minute.
C40_OneSnapshotPerMinute ==
  \A i, j \in DOMAIN EngHist.minute_volumes :
    i # j => EngHist.minute_volumes[i].ts_min # EngHist.minute_volumes[j].ts_min

====
